---- MODULE Spec2Model ----
(***************************************************************************)
(* Chunked recording-and-reassembly pipeline of audio-recorder.bs.js:      *)
(* the Dexie session/chunk store (AudioStorageService), the FFmpeg adapter  *)
(* (useFFmpeg), the PCM recorder (PCMRecorder) and the recording            *)
(* orchestrator (useAudioRecording).                                        *)
(*                                                                         *)
(* Every await of the source is a suspension point: an async function is   *)
(* a row of `calls` (store methods) or `tasks` (orchestrator functions)     *)
(* whose pc names the await it is suspended at; one action runs the code    *)
(* between two awaits.                                                      *)
(***************************************************************************)
EXTENDS Integers, Sequences, FiniteSets, TLC

\* ------------------------------------------------------------------ bounds
MaxTime == 0          \* Date.now() takes the values 0..MaxTime; ids made in one
                      \* millisecond are ordered by their random suffixes alone
MaxRand == 2          \* Math.random() suffixes 0..MaxRand-1, in string order
MaxCalls == 3         \* writing store calls a client issues in StoreSpec
MaxFloats == 1        \* longest Float32Array a client stores in StoreSpec
MaxFrames == 3        \* PCM frames the worklets post in all
MaxStarts == 1        \* startRecording invocations
MaxStops == 1         \* stopRecording invocations
StoreToDbInterval == 2 \* opt.storeToDbInterval, in durations of one frame
MaxFaults == 1        \* failures of the store, the engine and the devices in all
MaxAge == 3           \* sessions left by earlier page loads were created at -MaxAge..-1
MaxDays == 2          \* clearSessionsOlderThan(days) is called with days in 0..MaxDays
MaxKeep == 2          \* clearSessionOverThreshold(k) is called with k in 0..MaxKeep
FlushIntervals == 3   \* flush intervals of frames a recording of CycleSpec captures
MaxElapsed == 2       \* a recording of CycleSpec begins at -MaxElapsed, so that its
                      \* ids are made in MaxElapsed + 1 different milliseconds
MaxRestarts == 2      \* presses of the start button in DoubleStartSpec and RestartSpec
MaxMinutes == 100     \* longest recording of TimeSpec, in minutes
MaxClients == 3       \* store calls issued in all in ConcurrentSpec

\* ------------------------------------------------------------------- state
VARIABLES
    audioSessions,    \* db.audioSessions: committed rows, keyed by id
    audioChunks,      \* db.audioChunks: committed rows, keyed by id
    tx,               \* the running "rw" transaction on both tables, or NoTx
    now,              \* Date.now()
    calls,            \* activations of AudioStorageService methods
    issued,           \* number of store calls issued so far
    callNo,           \* history: chunk id -> number of the storeAudioChunk call that made it
    pcmRecorder,      \* useAudioRecording: the recorder held (0: undefined)
    pcmArrays,        \* useAudioRecording: the frames accumulated since the last flush
    totalSamples,     \* useAudioRecording: their number of samples
    isRecording,      \* useAudioRecording refs
    isProcessing,
    error,
    audioBlob,
    audioUrl,
    currentSession,
    recordingInterval,\* useRecordingTime: the setInterval handle is set
    recordingStartTime, \* useRecordingTime: Date.now() at startTime()
    recordingTime,    \* useRecordingTime: whole seconds shown, set by the timer
    recorders,        \* every PCMRecorder made by startPcmRecorder
    captured,         \* frames the worklets have posted so far
    fs,               \* the virtual file system of the FFmpeg instance
    tasks,            \* activations of the orchestrator's async functions
    mounted,          \* the component owning the composable is mounted
    starts,           \* startRecording invocations so far
    stops,            \* stopRecording invocations so far
    stoppedCalls,     \* history: the arguments of each onRecordingStopped call
    faults            \* failures the environment has injected so far

storeVars == <<audioSessions, audioChunks, tx>>
orchVars == <<pcmRecorder, pcmArrays, totalSamples, isRecording, isProcessing,
              error, audioBlob, audioUrl, currentSession, recordingInterval>>
envVars == <<recorders, captured, fs, mounted, starts, stops, stoppedCalls>>
appVars == <<orchVars, envVars, tasks>>
timeVars == <<recordingStartTime, recordingTime>>
vars == <<audioSessions, audioChunks, tx, now, calls, issued, callNo, appVars, faults,
          timeVars>>

\* ------------------------------------------------------------------ values
Ids == (0..MaxTime) \X (0..(MaxRand - 1))
NoId == <<>>
NoTx == [owner |-> 0, audioChunks |-> <<>>, audioSessions |-> <<>>]
NoRow == [id |-> NoId]
NoFloats == [kind |-> "none", data |-> <<>>]
NaN == -1             \* the JavaScript number NaN (sizes are never negative)

\* A Float32Array holding the given samples.
F32(data) == [kind |-> "f32", data |-> data]

RECURSIVE SeqsUpTo(_)
SeqsUpTo(n) == IF n = 0 THEN {<<>>}
               ELSE LET s == SeqsUpTo(n - 1)
                    IN s \cup {Append(x, 1) : x \in {y \in s : Len(y) = n - 1}}

\* floats.length: defined for a Float32Array, undefined for an ArrayBuffer.
FloatsLength(floats) == IF floats.kind = "f32" THEN Len(floats.data) ELSE NaN

\* a + b on JavaScript numbers (undefined and NaN both give NaN).
JsAdd(a, b) == IF a = NaN \/ b = NaN THEN NaN ELSE a + b

\* String order of `${Date.now()}-${random}` ids: the time part has a fixed
\* number of digits, so it decides first and the random suffix second.
IdLess(a, b) == a[1] < b[1] \/ (a[1] = b[1] /\ a[2] < b[2])

\* new Date(t).toISOString(): "YYYY-MM-DDTHH:mm:ss.sssZ", every field of a
\* fixed width and zero-padded.  Two digits stand for the fields; time 0 of
\* the model is the instant Epoch, and the unit of time is one day wherever
\* ages of sessions matter.
Epoch == 10
ToISOString(t) == <<(t + Epoch) \div 10, (t + Epoch) % 10>>

\* a < b on strings of the same width: the first differing character decides.
IsoBelow(a, b) == a[1] < b[1] \/ (a[1] = b[1] /\ a[2] < b[2])

\* The elements of a finite set of ids in ascending primary-key order.
RECURSIVE SortIds(_)
SortIds(S) == IF S = {} THEN <<>>
              ELSE LET m == CHOOSE x \in S : \A y \in S \ {x} : IdLess(x, y)
                   IN <<m>> \o SortIds(S \ {m})

RECURSIVE SumSizes(_, _)
SumSizes(chunks, S) ==
    IF S = {} THEN 0
    ELSE LET c == CHOOSE x \in S : TRUE
         IN JsAdd(FloatsLength(chunks[c].floats), SumSizes(chunks, S \ {c}))

Put(table, row) == [k \in DOMAIN table \cup {row.id} |->
                       IF k = row.id THEN row ELSE table[k]]
Remove(table, keys) == [k \in DOMAIN table \ keys |-> table[k]]

\* ------------------------------------------------------------ store queries
\* db.audioChunks.where("sessionId").equals(sessionId): primary keys of the
\* matching rows; toArray() yields them in primary-key order.
ChunkKeysOf(chunks, sessionId) ==
    {k \in DOMAIN chunks : chunks[k].sessionId = sessionId}

GetSessionChunks(chunks, sessionId) ==
    LET keys == SortIds(ChunkKeysOf(chunks, sessionId))
    IN [i \in 1..Len(keys) |-> chunks[keys[i]].floats]

GetSession(sessions, sessionId) ==
    IF sessionId \in DOMAIN sessions THEN sessions[sessionId] ELSE NoRow

GetAllSessionsAboveOrEqual0(sessions) ==
    {k \in DOMAIN sessions : sessions[k].chunkCount >= 0}

\* db.audioSessions.where("chunkCount").aboveOrEqual(1): NaN is not a valid
\* index key, so a row whose chunkCount is NaN is not in the index.
GetAllSessions(sessions) ==
    {k \in DOMAIN sessions : sessions[k].chunkCount >= 1}

\* generateId(): `${Date.now()}-${Math.random()...}`.  The clock is read
\* here and nowhere else, so the time that passed since the last reading is
\* chosen at the reading: any value from the last one up to MaxTime.
GenerateId == {<<t, r>> : t \in now..MaxTime, r \in 0..(MaxRand - 1)}

\* A step in which the environment fails (f) or does not.
Fault(f) == /\ f => faults < MaxFaults
            /\ faults' = IF f THEN faults + 1 ELSE faults

\* -------------------------------------------------------------- store calls
NewCall(op, caller, sessionId, floats, id) ==
    [op |-> op, pc |-> "start", caller |-> caller, no |-> issued + 1,
     sessionId |-> sessionId,
     floats |-> floats, id |-> id,
     createdAt |-> ToISOString(IF id = NoId THEN now ELSE id[1]),
     session |-> NoRow, arg |-> 0,
     result |-> <<>>, error |-> "",
     pre |-> IF op \in {"storeAudioChunk", "deleteSession"} /\ caller = 0
             THEN <<audioSessions, audioChunks>> ELSE <<>>]

FreeSlot(cs) == CHOOSE n \in 1..(Cardinality(DOMAIN cs) + 1) : n \notin DOMAIN cs

AddCallTo(cs, c) == [k \in DOMAIN cs \cup {FreeSlot(cs)} |->
                        IF k = FreeSlot(cs) THEN c ELSE cs[k]]

AddCall(c) == AddCallTo(calls, c)

DropCall(c) == [k \in DOMAIN calls \ {c} |-> calls[k]]

Fail(c, msg) == [calls EXCEPT ![c].pc = "err", ![c].error = msg]

\* createSession writing its row with put, which replaces a row with the
\* same key.
CreateSessionPut(c) ==
    /\ c \in DOMAIN calls
    /\ calls[c].op = "createSession" /\ calls[c].pc = "start"
    /\ tx = NoTx
    /\ audioSessions' = Put(audioSessions,
           [id |-> calls[c].id, createdAt |-> calls[c].createdAt,
            chunkCount |-> 0, totalSize |-> 0, chunkIds |-> <<>>,
            sampleRate |-> 1, numChannels |-> 1])
    /\ calls' = [calls EXCEPT ![c].pc = "ok", ![c].result = calls[c].id]
    /\ UNCHANGED <<audioChunks, tx, now, issued, callNo, appVars>>
    /\ UNCHANGED <<faults, timeVars>>

\* createSession: db.audioSessions.add of a row with zeroed counters; add
\* rejects with ConstraintError when the key exists.
CreateSessionAdd(c) ==
    /\ c \in DOMAIN calls
    /\ calls[c].op = "createSession" /\ calls[c].pc = "start"
    /\ tx = NoTx
    /\ IF calls[c].id \in DOMAIN audioSessions
       THEN /\ calls' = Fail(c, "ConstraintError")
            /\ UNCHANGED audioSessions
       ELSE /\ audioSessions' = Put(audioSessions,
                   [id |-> calls[c].id, createdAt |-> calls[c].createdAt,
                    chunkCount |-> 0, totalSize |-> 0, chunkIds |-> <<>>,
                    sampleRate |-> 1, numChannels |-> 1])
            /\ calls' = [calls EXCEPT ![c].pc = "ok", ![c].result = calls[c].id]
    /\ UNCHANGED <<audioChunks, tx, now, issued, callNo, appVars>>
    /\ UNCHANGED <<faults, timeVars>>

\* The chunk row storeAudioChunk inserts.
ChunkRow(call) == [id |-> call.id, sessionId |-> call.sessionId,
                   createdAt |-> call.createdAt, floats |-> call.floats]

\* storeAudioChunk with the chunk added before the session is looked up.
StoreGetAddsFirst(c) ==
    /\ c \in DOMAIN calls
    /\ calls[c].op = "storeAudioChunk" /\ calls[c].pc = "start"
    /\ tx = NoTx
    /\ LET session == GetSession(audioSessions, calls[c].sessionId)
       IN IF session = NoRow
          THEN /\ calls' = Fail(c, "SessionNotFound")
               /\ audioChunks' = Put(audioChunks, ChunkRow(calls[c]))
          ELSE /\ calls' = [calls EXCEPT ![c].pc = "add", ![c].session = session]
               /\ UNCHANGED audioChunks
    /\ UNCHANGED <<audioSessions, tx, now, issued, callNo, appVars>>
    /\ UNCHANGED <<faults, timeVars>>

\* storeAudioChunk, db.audioSessions.get(sessionId) and the not-found check.
StoreGet(c) ==
    /\ c \in DOMAIN calls
    /\ calls[c].op = "storeAudioChunk" /\ calls[c].pc = "start"
    /\ tx = NoTx
    /\ LET session == GetSession(audioSessions, calls[c].sessionId)
       IN IF session = NoRow
          THEN calls' = Fail(c, "SessionNotFound")
          ELSE calls' = [calls EXCEPT ![c].pc = "add", ![c].session = session]
    /\ UNCHANGED <<storeVars, now, issued, callNo, appVars>>
    /\ UNCHANGED <<faults, timeVars>>

StoreTxAddAutoCommit(c, fails) ==
    /\ c \in DOMAIN calls
    /\ calls[c].op = "storeAudioChunk" /\ calls[c].pc = "add"
    /\ tx = NoTx
    /\ IF fails \/ calls[c].id \in DOMAIN audioChunks
       THEN /\ calls' = Fail(c, "AddFailed")
            /\ UNCHANGED <<tx, audioChunks>>
       ELSE /\ audioChunks' = Put(audioChunks, ChunkRow(calls[c]))
            /\ tx' = [owner |-> c, audioChunks |-> audioChunks',
                      audioSessions |-> audioSessions]
            /\ calls' = [calls EXCEPT ![c].pc = "put"]
    /\ UNCHANGED <<audioSessions, now, issued, callNo, appVars>>
    /\ Fault(fails)
    /\ UNCHANGED timeVars

\* db.transaction("rw", ...) starts and db.audioChunks.add runs inside it:
\* the write is staged in the transaction, or the add rejects (key exists,
\* quota, I/O) and the transaction aborts.
StoreTxAdd(c, fails) ==
    /\ c \in DOMAIN calls
    /\ calls[c].op = "storeAudioChunk" /\ calls[c].pc = "add"
    /\ tx = NoTx
    /\ IF fails \/ calls[c].id \in DOMAIN audioChunks
       THEN /\ calls' = Fail(c, "AddFailed")
            /\ UNCHANGED tx
       ELSE /\ tx' = [owner |-> c,
                      audioChunks |-> Put(audioChunks, ChunkRow(calls[c])),
                      audioSessions |-> audioSessions]
            /\ calls' = [calls EXCEPT ![c].pc = "put"]
    /\ UNCHANGED <<audioSessions, audioChunks, now, issued, callNo, appVars>>
    /\ Fault(fails)
    /\ UNCHANGED timeVars

UpdatedSessionNoPush(session, id, floats) ==
    [session EXCEPT !.chunkCount = JsAdd(@, 1),
                    !.totalSize = JsAdd(@, FloatsLength(floats))]

\* The session object read before the transaction, after the three updates.
UpdatedSession(session, id, floats) ==
    [session EXCEPT !.chunkCount = JsAdd(@, 1),
                    !.totalSize = JsAdd(@, FloatsLength(floats)),
                    !.chunkIds = Append(@, id)]

\* session.chunkCount += 1; ...; db.audioSessions.put(session) inside the
\* transaction, or the put rejects and the transaction aborts.
StoreTxPut(c, fails) ==
    /\ c \in DOMAIN calls
    /\ calls[c].op = "storeAudioChunk" /\ calls[c].pc = "put"
    /\ tx.owner = c
    /\ IF fails
       THEN /\ calls' = Fail(c, "PutFailed")
            /\ tx' = NoTx
       ELSE /\ tx' = [tx EXCEPT !.audioSessions =
                        Put(@, UpdatedSession(calls[c].session, calls[c].id,
                                              calls[c].floats))]
            /\ calls' = [calls EXCEPT ![c].pc = "commit"]
    /\ UNCHANGED <<audioSessions, audioChunks, now, issued, callNo, appVars>>
    /\ Fault(fails)
    /\ UNCHANGED timeVars

\* The transaction's scope function returned: both staged writes commit.
StoreTxCommit(c) ==
    /\ c \in DOMAIN calls
    /\ calls[c].op = "storeAudioChunk" /\ calls[c].pc = "commit"
    /\ tx.owner = c
    /\ audioChunks' = tx.audioChunks
    /\ audioSessions' = tx.audioSessions
    /\ tx' = NoTx
    /\ calls' = [calls EXCEPT ![c].pc = "ok", ![c].result = calls[c].id]
    /\ callNo' = [k \in DOMAIN tx.audioChunks |->
                     IF k = calls[c].id THEN calls[c].no ELSE callNo[k]]
    /\ UNCHANGED <<now, issued, appVars>>
    /\ UNCHANGED <<faults, timeVars>>

\* getSessionChunks: the indexed query and the map to payloads.
GetSessionChunksQuery(c) ==
    /\ c \in DOMAIN calls
    /\ calls[c].op = "getSessionChunks" /\ calls[c].pc = "start"
    /\ tx = NoTx
    /\ calls' = [calls EXCEPT ![c].pc = "ok",
                   ![c].result = GetSessionChunks(audioChunks, calls[c].sessionId)]
    /\ UNCHANGED <<storeVars, now, issued, callNo, appVars>>
    /\ UNCHANGED <<faults, timeVars>>

\* getSession: db.audioSessions.get(sessionId).
GetSessionGet(c) ==
    /\ c \in DOMAIN calls
    /\ calls[c].op = "getSession" /\ calls[c].pc = "start"
    /\ tx = NoTx
    /\ calls' = [calls EXCEPT ![c].pc = "ok",
                   ![c].session = GetSession(audioSessions, calls[c].sessionId)]
    /\ UNCHANGED <<storeVars, now, issued, callNo, appVars>>
    /\ UNCHANGED <<faults, timeVars>>

\* deleteSession, db.audioSessions.get(sessionId) and the not-found check.
DeleteGet(c) ==
    /\ c \in DOMAIN calls
    /\ calls[c].op = "deleteSession" /\ calls[c].pc = "start"
    /\ tx = NoTx
    /\ LET session == GetSession(audioSessions, calls[c].sessionId)
       IN IF session = NoRow
          THEN calls' = Fail(c, "SessionNotFound")
          ELSE calls' = [calls EXCEPT ![c].pc = "delChunks", ![c].session = session]
    /\ UNCHANGED <<storeVars, now, issued, callNo, appVars>>
    /\ UNCHANGED <<faults, timeVars>>

\* deleteSession with a transaction that leaves the chunks in place.
DeleteTxChunksKeepsChunks(c, fails) ==
    /\ c \in DOMAIN calls
    /\ calls[c].op = "deleteSession" /\ calls[c].pc = "delChunks"
    /\ tx = NoTx
    /\ IF fails
       THEN /\ calls' = Fail(c, "TransactionFailed")
            /\ UNCHANGED tx
       ELSE /\ tx' = [owner |-> c, audioChunks |-> audioChunks,
                      audioSessions |-> audioSessions]
            /\ calls' = [calls EXCEPT ![c].pc = "delSession"]
    /\ UNCHANGED <<audioSessions, audioChunks, now, issued, callNo, appVars>>
    /\ Fault(fails)
    /\ UNCHANGED timeVars

\* The transaction starts; where("sessionId").equals(sessionId).delete().
DeleteTxChunks(c, fails) ==
    /\ c \in DOMAIN calls
    /\ calls[c].op = "deleteSession" /\ calls[c].pc = "delChunks"
    /\ tx = NoTx
    /\ IF fails
       THEN /\ calls' = Fail(c, "TransactionFailed")
            /\ UNCHANGED tx
       ELSE /\ tx' = [owner |-> c,
                      audioChunks |-> Remove(audioChunks,
                          ChunkKeysOf(audioChunks, calls[c].sessionId)),
                      audioSessions |-> audioSessions]
            /\ calls' = [calls EXCEPT ![c].pc = "delSession"]
    /\ UNCHANGED <<audioSessions, audioChunks, now, issued, callNo, appVars>>
    /\ Fault(fails)
    /\ UNCHANGED timeVars

\* db.audioSessions.delete(sessionId) inside the transaction.
DeleteTxSession(c, fails) ==
    /\ c \in DOMAIN calls
    /\ calls[c].op = "deleteSession" /\ calls[c].pc = "delSession"
    /\ tx.owner = c
    /\ IF fails
       THEN /\ calls' = Fail(c, "TransactionFailed")
            /\ tx' = NoTx
       ELSE /\ tx' = [tx EXCEPT !.audioSessions = Remove(@, {calls[c].sessionId})]
            /\ calls' = [calls EXCEPT ![c].pc = "commit"]
    /\ UNCHANGED <<audioSessions, audioChunks, now, issued, callNo, appVars>>
    /\ Fault(fails)
    /\ UNCHANGED timeVars

DeleteTxCommit(c) ==
    /\ c \in DOMAIN calls
    /\ calls[c].op = "deleteSession" /\ calls[c].pc = "commit"
    /\ tx.owner = c
    /\ audioChunks' = tx.audioChunks
    /\ audioSessions' = tx.audioSessions
    /\ tx' = NoTx
    /\ calls' = [calls EXCEPT ![c].pc = "ok"]
    /\ callNo' = [k \in DOMAIN tx.audioChunks |-> callNo[k]]
    /\ UNCHANGED <<now, issued, appVars>>
    /\ UNCHANGED <<faults, timeVars>>

\* ------------------------------------------- listing and evicting sessions
\* where("chunkCount").aboveOrEqual(1).toArray(): the rows in the order of
\* the chunkCount index, equal counts in primary-key order.
RECURSIVE RowsByChunkCount(_, _)
RowsByChunkCount(sessions, S) ==
    IF S = {} THEN <<>>
    ELSE LET m == CHOOSE x \in S : \A y \in S \ {x} :
                      \/ sessions[x].chunkCount < sessions[y].chunkCount
                      \/ /\ sessions[x].chunkCount = sessions[y].chunkCount
                         /\ IdLess(x, y)
         IN <<sessions[m]>> \o RowsByChunkCount(sessions, S \ {m})

\* where("createdAt").below(iso).toArray(): the rows in the order of the
\* createdAt index, equal strings in primary-key order.
RECURSIVE RowsByCreatedAt(_, _)
RowsByCreatedAt(sessions, S) ==
    IF S = {} THEN <<>>
    ELSE LET m == CHOOSE x \in S : \A y \in S \ {x} :
                      \/ IsoBelow(sessions[x].createdAt, sessions[y].createdAt)
                      \/ /\ sessions[x].createdAt = sessions[y].createdAt
                         /\ IdLess(x, y)
         IN <<sessions[m]>> \o RowsByCreatedAt(sessions, S \ {m})

\* Collection.sortBy("createdAt"): a stable sort of the rows.
RECURSIVE SortByCreatedAt(_)
SortByCreatedAt(rows) ==
    IF rows = <<>> THEN <<>>
    ELSE LET i == CHOOSE i \in 1..Len(rows) :
                      /\ \A j \in 1..Len(rows) :
                            ~IsoBelow(rows[j].createdAt, rows[i].createdAt)
                      /\ \A j \in 1..(i - 1) :
                            IsoBelow(rows[i].createdAt, rows[j].createdAt)
         IN <<rows[i]>> \o
            SortByCreatedAt(SubSeq(rows, 1, i - 1) \o SubSeq(rows, i + 1, Len(rows)))

\* getAllSessions.
GetAllSessionsQuery(c) ==
    /\ c \in DOMAIN calls
    /\ calls[c].op = "getAllSessions" /\ calls[c].pc = "start"
    /\ tx = NoTx
    /\ calls' = [calls EXCEPT ![c].pc = "ok",
                   ![c].result = RowsByChunkCount(audioSessions,
                                                  GetAllSessions(audioSessions))]
    /\ UNCHANGED <<storeVars, now, issued, callNo, appVars>>
    /\ UNCHANGED <<faults, timeVars>>

\* The for loop of the two clear methods, from its head up to the next
\* await: the method returns, or deleteSession is called for the next row.
\* The activation of deleteSession names the activation c awaiting it as -c.
ClearLoop(cs, c, rows) ==
    IF rows = <<>>
    THEN [cs EXCEPT ![c].pc = "ok", ![c].result = <<>>]
    ELSE AddCallTo([cs EXCEPT ![c].pc = "deleteSession", ![c].result = rows],
                   NewCall("deleteSession", -c, Head(rows).id, NoFloats, NoId))

\* clearSessionsOlderThan with the sessions created at the cutoff included.
ClearOlderQueryBelowOrEqual(c) ==
    /\ c \in DOMAIN calls
    /\ calls[c].op = "clearSessionsOlderThan" /\ calls[c].pc = "start"
    /\ tx = NoTx
    /\ calls' = ClearLoop(calls, c,
                   RowsByCreatedAt(audioSessions,
                       {k \in DOMAIN audioSessions :
                           ~IsoBelow(calls[c].arg, audioSessions[k].createdAt)}))
    /\ UNCHANGED <<storeVars, now, issued, callNo, appVars>>
    /\ UNCHANGED <<faults, timeVars>>

\* clearSessionsOlderThan: the query returns and the loop starts.  The
\* cutoff string was computed when the method was called.
ClearOlderQuery(c) ==
    /\ c \in DOMAIN calls
    /\ calls[c].op = "clearSessionsOlderThan" /\ calls[c].pc = "start"
    /\ tx = NoTx
    /\ calls' = ClearLoop(calls, c,
                   RowsByCreatedAt(audioSessions,
                       {k \in DOMAIN audioSessions :
                           IsoBelow(audioSessions[k].createdAt, calls[c].arg)}))
    /\ UNCHANGED <<storeVars, now, issued, callNo, appVars>>
    /\ UNCHANGED <<faults, timeVars>>

\* clearSessionOverThreshold with the newest rows sliced off, not the oldest.
ClearOverQueryDropsNewest(c) ==
    /\ c \in DOMAIN calls
    /\ calls[c].op = "clearSessionOverThreshold" /\ calls[c].pc = "start"
    /\ tx = NoTx
    /\ LET sessions == SortByCreatedAt(RowsByChunkCount(audioSessions,
                                           GetAllSessions(audioSessions)))
       IN calls' = IF Len(sessions) <= calls[c].arg
                   THEN ClearLoop(calls, c, <<>>)
                   ELSE ClearLoop(calls, c,
                            SubSeq(sessions, calls[c].arg + 1, Len(sessions)))
    /\ UNCHANGED <<storeVars, now, issued, callNo, appVars>>
    /\ UNCHANGED <<faults, timeVars>>

\* clearSessionOverThreshold: the query returns; nothing to delete, or the
\* loop over the oldest sessions.length - maxSessions rows starts.
ClearOverQuery(c) ==
    /\ c \in DOMAIN calls
    /\ calls[c].op = "clearSessionOverThreshold" /\ calls[c].pc = "start"
    /\ tx = NoTx
    /\ LET sessions == SortByCreatedAt(RowsByChunkCount(audioSessions,
                                           GetAllSessions(audioSessions)))
       IN calls' = IF Len(sessions) <= calls[c].arg
                   THEN ClearLoop(calls, c, <<>>)
                   ELSE ClearLoop(calls, c,
                            SubSeq(sessions, 1, Len(sessions) - calls[c].arg))
    /\ UNCHANGED <<storeVars, now, issued, callNo, appVars>>
    /\ UNCHANGED <<faults, timeVars>>

\* await this.deleteSession(session.id) returns and the loop goes on, or it
\* throws and the clear method throws.
ClearDeleteReturn(c, d) ==
    /\ c \in DOMAIN calls /\ d \in DOMAIN calls
    /\ calls[c].op \in {"clearSessionsOlderThan", "clearSessionOverThreshold"}
    /\ calls[c].pc = "deleteSession"
    /\ calls[d].caller = -c /\ calls[d].pc \in {"ok", "err"}
    /\ LET cs == [k \in DOMAIN calls \ {d} |-> calls[k]]
       IN calls' = IF calls[d].pc = "err"
                   THEN [cs EXCEPT ![c].pc = "err", ![c].error = calls[d].error]
                   ELSE ClearLoop(cs, c, Tail(calls[c].result))
    /\ UNCHANGED <<storeVars, now, issued, callNo, appVars>>
    /\ UNCHANGED <<faults, timeVars>>

\* ---------------------------------------------------------------- FFmpeg
NoFile == NoFloats
NoBlob == NoFloats

\* The bytes of an MP3 stream that encodes the given samples.
Mp3(data) == [kind |-> "mp3", data |-> data]

FileNames == {"input.pcm", "output.mp3", "input{i}.mp3", "files.txt"}

RECURSIVE Flatten(_)
Flatten(seqs) == IF seqs = <<>> THEN <<>>
                 ELSE Head(seqs) \o Flatten(Tail(seqs))

\* toPcmData(pcmArrays): one Float32Array, the frames in arrival order.
ToPcmData(arrays) == F32(Flatten(arrays))

\* ----------------------------------------------------------- orchestrator
Task(fn, pc) == [fn |-> fn, pc |-> pc, data |-> NoFloats, mp3 |-> NoFloats,
                 threw |-> FALSE, rec |-> 0, session |-> NoId,
                 buffers |-> <<>>, error |-> ""]

\* The activation has returned, or has thrown msg to its caller.
Done(t) == [tasks EXCEPT ![t] = Task(tasks[t].fn, "done")]
Thrown(t, msg) ==
    [tasks EXCEPT ![t] = [Task(tasks[t].fn, "failed") EXCEPT
                              !.error = msg,
                              !.session = tasks[t].session,
                              !.buffers = tasks[t].buffers]]

At(t, fns, pcs) == t \in DOMAIN tasks /\ tasks[t].fn \in fns /\ tasks[t].pc \in pcs

\* The store call the activation awaits has settled.
Settled(t, c) == c \in DOMAIN calls /\ calls[c].caller = t /\ calls[c].pc \in {"ok", "err"}

AppInit ==
    /\ pcmRecorder = 0
    /\ pcmArrays = <<>>
    /\ totalSamples = 0
    /\ isRecording = FALSE
    /\ isProcessing = FALSE
    /\ error = ""
    /\ audioBlob = NoBlob
    /\ audioUrl = NoBlob
    /\ currentSession = NoId
    /\ recordingInterval = FALSE
    /\ recordingStartTime = 0
    /\ recordingTime = 0
    /\ recorders = <<>>
    /\ captured = 0
    /\ fs = [f \in FileNames |-> NoFile]
    /\ tasks = <<>>
    /\ mounted = TRUE
    /\ starts = 0
    /\ stops = 0
    /\ stoppedCalls = <<>>
    /\ faults = 0

\* The frame accumulator and the activations, as one value the synchronous
\* code below transforms.
Acc == [pcmArrays |-> pcmArrays, totalSamples |-> totalSamples, tasks |-> tasks]

\* appendMp3 up to its first await, run by a new activation of fn: the
\* guard, toPcmData, the reset of the accumulator, and the call of pcmToMp3,
\* which suspends at ffmpeg.load().
AppendMp3Begin(st, fn) ==
    IF pcmRecorder = 0
    THEN [st EXCEPT !.tasks = Append(@, [Task(fn, "failed") EXCEPT
                                  !.error = "pcmRecorder is not initialized"])]
    ELSE [st EXCEPT !.tasks = Append(@, [Task(fn, "load") EXCEPT
                                  !.data = ToPcmData(st.pcmArrays),
                                  !.rec = pcmRecorder]),
                    !.pcmArrays = <<>>,
                    !.totalSamples = 0]

\* The listener startRecording registers, up to its first await.  A frame
\* holds one sample and the sample rate is one sample per unit of time.
Listener(st, pcmData) ==
    LET pushed == [st EXCEPT !.pcmArrays = Append(@, pcmData),
                             !.totalSamples = @ + Len(pcmData)]
    IN IF pushed.totalSamples >= StoreToDbInterval
       THEN AppendMp3Begin([pushed EXCEPT !.totalSamples = 0], "onPCMData")
       ELSE pushed

\* port.onmessage: every registered listener is called, none is awaited.
RECURSIVE CallListeners(_, _, _)
CallListeners(st, pcmData, n) ==
    IF n = 0 THEN st ELSE CallListeners(Listener(st, pcmData), pcmData, n - 1)

\* The worklet of recorder r posts the next frame.  A frame posted while no
\* listener is registered changes nothing and is left out.
PostFrame(r) ==
    /\ r \in DOMAIN recorders
    /\ recorders[r].port
    /\ recorders[r].listeners > 0
    /\ captured' = captured + 1
    /\ LET st == CallListeners(Acc, <<captured + 1>>, recorders[r].listeners)
       IN /\ pcmArrays' = st.pcmArrays
          /\ totalSamples' = st.totalSamples
          /\ tasks' = st.tasks
    /\ UNCHANGED <<storeVars, now, calls, issued, callNo, pcmRecorder, isRecording,
                   isProcessing, error, audioBlob, audioUrl, currentSession,
                   recordingInterval, recorders, fs, mounted, starts, stops, stoppedCalls>>
    /\ UNCHANGED <<faults, timeVars>>

OnMessage(r) == captured < MaxFrames /\ PostFrame(r)

\* What every step of the two FFmpeg functions leaves alone.
FfmpegFrame == UNCHANGED <<storeVars, now, calls, issued, callNo, orchVars,
                           recorders, captured, mounted, starts, stops, stoppedCalls>>

\* await ffmpeg.load() returns, in pcmToMp3 or in concatMp3.
FfmpegLoad(t) ==
    /\ At(t, {"onPCMData", "stopRecording"}, {"load", "concatLoad"})
    /\ tasks' = [tasks EXCEPT ![t].pc = IF @ = "load" THEN "write" ELSE "concatWrite"]
    /\ UNCHANGED fs
    /\ FfmpegFrame
    /\ UNCHANGED <<faults, timeVars>>

\* pcmToMp3: ffmpeg.writeFile("input.pcm", ...).
PcmWrite(t) ==
    /\ At(t, {"onPCMData", "stopRecording"}, {"write"})
    /\ fs' = [fs EXCEPT !["input.pcm"] = tasks[t].data]
    /\ tasks' = [tasks EXCEPT ![t].pc = "exec", ![t].data = NoFloats]
    /\ FfmpegFrame
    /\ UNCHANGED <<faults, timeVars>>

\* pcmToMp3: ffmpeg.exec(... "-i", "input.pcm", ..., "output.mp3").  The
\* engine throws, or runs: without its input it writes nothing, and it is
\* called without -y, so an existing output may be kept.
PcmExec(t, throws, overwrites) ==
    /\ At(t, {"onPCMData", "stopRecording"}, {"exec"})
    /\ IF throws
       THEN /\ tasks' = [tasks EXCEPT ![t].pc = "del1", ![t].threw = TRUE]
            /\ UNCHANGED fs
       ELSE /\ tasks' = [tasks EXCEPT ![t].pc = "read"]
            /\ fs' = IF \/ fs["input.pcm"] = NoFile
                        \/ (fs["output.mp3"] # NoFile /\ ~overwrites)
                     THEN fs
                     ELSE [fs EXCEPT !["output.mp3"] = Mp3(fs["input.pcm"].data)]
    /\ FfmpegFrame
    /\ Fault(throws)
    /\ UNCHANGED timeVars

\* pcmToMp3: ffmpeg.readFile("output.mp3") and toBlob, or the read throws.
PcmRead(t) ==
    /\ At(t, {"onPCMData", "stopRecording"}, {"read"})
    /\ tasks' = IF fs["output.mp3"] = NoFile
                THEN [tasks EXCEPT ![t].pc = "del1", ![t].threw = TRUE]
                ELSE [tasks EXCEPT ![t].pc = "del1", ![t].mp3 = fs["output.mp3"]]
    /\ UNCHANGED fs
    /\ FfmpegFrame
    /\ UNCHANGED <<faults, timeVars>>

\* pcmToMp3 with a finally block in which a deleteFile("input.pcm") that
\* rejects (the file is not there) ends the function.
PcmDeleteInputStopsOnError(t) ==
    /\ At(t, {"onPCMData", "stopRecording"}, {"del1"})
    /\ IF fs["input.pcm"] = NoFile
       THEN /\ tasks' = Thrown(t, "deleteFile")
            /\ UNCHANGED fs
       ELSE /\ fs' = [fs EXCEPT !["input.pcm"] = NoFile]
            /\ tasks' = [tasks EXCEPT ![t].pc = "del2"]
    /\ FfmpegFrame
    /\ UNCHANGED <<faults, timeVars>>

\* pcmToMp3, finally: deleteFile("input.pcm"), a failure is swallowed.
PcmDeleteInput(t) ==
    /\ At(t, {"onPCMData", "stopRecording"}, {"del1"})
    /\ fs' = [fs EXCEPT !["input.pcm"] = NoFile]
    /\ tasks' = [tasks EXCEPT ![t].pc = "del2"]
    /\ FfmpegFrame
    /\ UNCHANGED <<faults, timeVars>>

\* pcmToMp3, finally: deleteFile("output.mp3"); then pcmToMp3 returns the
\* blob to appendMp3, which reads currentSession.value and awaits
\* mp3Blob.arrayBuffer(), or rethrows, and appendMp3 and its caller throw.
PcmDeleteOutput(t) ==
    /\ At(t, {"onPCMData", "stopRecording"}, {"del2"})
    /\ fs' = [fs EXCEPT !["output.mp3"] = NoFile]
    /\ tasks' = IF tasks[t].threw
                THEN Thrown(t, "pcmToMp3")
                ELSE [tasks EXCEPT ![t].pc = "arrayBuffer",
                                   ![t].session = currentSession]
    /\ FfmpegFrame
    /\ UNCHANGED <<faults, timeVars>>

\* mp3Blob.arrayBuffer() returns and storeAudioChunk is called: generateId
\* runs and the call suspends at its first await.
BlobArrayBuffer(t, id) ==
    /\ At(t, {"onPCMData", "stopRecording"}, {"arrayBuffer"})
    /\ id \in GenerateId
    /\ now' = id[1]
    /\ calls' = AddCall(NewCall("storeAudioChunk", t, tasks[t].session,
                                tasks[t].mp3, id))
    /\ tasks' = [tasks EXCEPT ![t].pc = "store", ![t].mp3 = NoFloats,
                              ![t].session = NoId]
    /\ UNCHANGED <<storeVars, issued, callNo, orchVars, envVars>>
    /\ UNCHANGED <<faults, timeVars>>

\* A listener that gives the recording up when storeAudioChunk rejects.
ListenerReturnStopsOnError(t, c) ==
    /\ At(t, {"onPCMData"}, {"store"})
    /\ Settled(t, c)
    /\ calls' = DropCall(c)
    /\ tasks' = [Done(t) EXCEPT ![t].error = calls[c].error]
    /\ isRecording' = (isRecording /\ calls[c].pc = "ok")
    /\ UNCHANGED <<storeVars, now, issued, callNo, pcmRecorder, pcmArrays,
                   totalSamples, isProcessing, error, audioBlob, audioUrl,
                   currentSession, recordingInterval, envVars>>
    /\ UNCHANGED <<faults, timeVars>>

\* The listener's appendMp3 returns: a rejection of storeAudioChunk was
\* caught and logged (the activation keeps what was logged).
ListenerReturn(t, c) ==
    /\ At(t, {"onPCMData"}, {"store"})
    /\ Settled(t, c)
    /\ calls' = DropCall(c)
    /\ tasks' = [Done(t) EXCEPT ![t].error = calls[c].error]
    /\ UNCHANGED <<storeVars, now, issued, callNo, orchVars, envVars>>
    /\ UNCHANGED <<faults, timeVars>>

RecorderStopKeepsTracks(r) == [recorders EXCEPT ![r].port = FALSE]

\* PCMRecorder.stop() up to its await: the handler is removed, the port is
\* closed, the nodes are disconnected and every track is stopped.
RecorderStop(r) == [recorders EXCEPT ![r].port = FALSE, ![r].live = FALSE]

\* abortRecording up to its await, run by activation t: without a recorder
\* it returns and t, which has nothing left to do, returns too.
AbortRecordingBegin(t) ==
    IF pcmRecorder = 0
    THEN /\ tasks' = Done(t)
         /\ UNCHANGED <<isRecording, recorders>>
    ELSE /\ isRecording' = FALSE
         /\ recorders' = RecorderStop(pcmRecorder)
         /\ tasks' = [tasks EXCEPT ![t].pc = "abortRecording"]

\* stopRecording after abortRecording has returned, up to the next await;
\* cs are the store calls in flight.
StopAfterAbort(t, cs) ==
    /\ isProcessing' = TRUE
    /\ IF currentSession = NoId
       THEN /\ tasks' = Thrown(t, "No active session for recording")
            /\ calls' = cs
       ELSE /\ tasks' = [tasks EXCEPT ![t].pc = "getSession"]
            /\ calls' = AddCallTo(cs, NewCall("getSession", t, currentSession,
                                              NoFloats, NoId))

\* await pcmRecorder.stop() returns or throws in abortRecording: the two
\* statements after it run only when it returned; the catch only logs.
\* Then abortRecording returns to its caller.
AbortRecordingReturn(t, throws) ==
    /\ At(t, {"startRecording", "stopRecording", "abortRecording"}, {"abortRecording"})
    /\ IF throws
       THEN UNCHANGED <<pcmRecorder, recordingInterval>>
       ELSE pcmRecorder' = 0 /\ recordingInterval' = FALSE
    /\ IF tasks[t].fn = "stopRecording"
       THEN StopAfterAbort(t, calls)
       ELSE tasks' = Done(t) /\ UNCHANGED <<calls, isProcessing>>
    /\ UNCHANGED <<storeVars, now, issued, callNo, pcmArrays, totalSamples,
                   isRecording, error, audioBlob, audioUrl, currentSession, envVars>>
    /\ Fault(throws)
    /\ UNCHANGED timeVars

\* onUnmounted.
Unmount ==
    /\ mounted
    /\ mounted' = FALSE
    /\ IF pcmRecorder = 0
       THEN UNCHANGED <<isRecording, recorders, tasks>>
       ELSE /\ isRecording' = FALSE
            /\ recorders' = RecorderStop(pcmRecorder)
            /\ tasks' = Append(tasks, Task("abortRecording", "abortRecording"))
    /\ UNCHANGED <<storeVars, now, calls, issued, callNo, pcmRecorder, pcmArrays,
                   totalSamples, isProcessing, error, audioBlob, audioUrl,
                   currentSession, recordingInterval, captured, fs, starts, stops,
                   stoppedCalls>>
    /\ UNCHANGED <<faults, timeVars>>

\* ------------------------------------------------------- startRecording
\* The start button is shown while isRecording is false.
BeginStart ==
    /\ mounted /\ ~isRecording
    /\ starts' = starts + 1
    /\ tasks' = Append(tasks, Task("startRecording", "checkMicrophoneAvailability"))
    /\ UNCHANGED <<storeVars, now, calls, issued, callNo, orchVars, recorders,
                   captured, fs, mounted, stops, stoppedCalls>>
    /\ UNCHANGED <<faults, timeVars>>

StartRecording == starts < MaxStarts /\ BeginStart

\* useRecordingTime.startTime(): the start time is taken from the clock, the
\* shown time is reset and the timer is set.
StartTime ==
    /\ recordingStartTime' = now
    /\ recordingTime' = 0
    /\ recordingInterval' = TRUE

\* startRecording with the recording timer started before the probe's
\* answer is looked at.
StartMicrophoneCheckedStartsTimer(t, isAvailable) ==
    /\ At(t, {"startRecording"}, {"checkMicrophoneAvailability"})
    /\ StartTime
    /\ IF isAvailable
       THEN /\ audioBlob' = NoBlob /\ audioUrl' = NoBlob /\ error' = ""
            /\ pcmArrays' = <<>> /\ totalSamples' = 0 /\ pcmRecorder' = 0
            /\ tasks' = [tasks EXCEPT ![t].pc = "startPcmRecorder"]
       ELSE /\ error' = "Microphone not available"
            /\ tasks' = Done(t)
            /\ UNCHANGED <<audioBlob, audioUrl, pcmArrays, totalSamples, pcmRecorder>>
    /\ UNCHANGED <<storeVars, now, calls, issued, callNo, isRecording, isProcessing,
                   currentSession, envVars>>
    /\ UNCHANGED faults

\* checkMicrophoneAvailability returns; resetRecording; startPcmRecorder is
\* called.
StartMicrophoneChecked(t, isAvailable) ==
    /\ At(t, {"startRecording"}, {"checkMicrophoneAvailability"})
    /\ IF isAvailable
       THEN /\ audioBlob' = NoBlob /\ audioUrl' = NoBlob /\ error' = ""
            /\ pcmArrays' = <<>> /\ totalSamples' = 0 /\ pcmRecorder' = 0
            /\ tasks' = [tasks EXCEPT ![t].pc = "startPcmRecorder"]
       ELSE /\ error' = "Microphone not available"
            /\ tasks' = Done(t)
            /\ UNCHANGED <<audioBlob, audioUrl, pcmArrays, totalSamples, pcmRecorder>>
    /\ UNCHANGED <<storeVars, now, calls, issued, callNo, isRecording, isProcessing,
                   currentSession, recordingInterval, envVars>>
    /\ UNCHANGED <<faults, timeVars>>

\* The catch block of startRecording up to its first await; session is
\* currentSession.value as the block reads it.
StartCatch(t, cs, session) ==
    /\ error' = "handleMicrophoneError"
    /\ IF session # NoId
       THEN /\ calls' = AddCallTo(cs, NewCall("deleteSession", t, session,
                                              NoFloats, NoId))
            /\ tasks' = [tasks EXCEPT ![t].pc = "deleteSession"]
            /\ UNCHANGED <<isRecording, recorders>>
       ELSE /\ calls' = cs
            /\ AbortRecordingBegin(t)

\* startRecording with the timer started before startPcmRecorder is awaited.
StartPcmRecorderReturnTimerFirst(t, throws, id) ==
    /\ At(t, {"startRecording"}, {"startPcmRecorder"})
    /\ id \in GenerateId
    /\ StartTime
    /\ IF throws
       THEN /\ StartCatch(t, calls, currentSession)
            /\ UNCHANGED <<pcmRecorder, now>>
       ELSE /\ recorders' = Append(recorders,
                                   [port |-> TRUE, live |-> TRUE, listeners |-> 0])
            /\ pcmRecorder' = Len(recorders) + 1
            /\ now' = id[1]
            /\ calls' = AddCall(NewCall("createSession", t, NoId, NoFloats, id))
            /\ tasks' = [tasks EXCEPT ![t].pc = "createSession"]
            /\ UNCHANGED <<error, isRecording>>
    /\ UNCHANGED <<storeVars, issued, callNo, pcmArrays, totalSamples, isProcessing,
                   audioBlob, audioUrl, currentSession,
                   captured, fs, mounted, starts, stops, stoppedCalls>>
    /\ Fault(throws)

\* startPcmRecorder returns a running recorder and createSession is called,
\* or it throws.
StartPcmRecorderReturn(t, throws, id) ==
    /\ At(t, {"startRecording"}, {"startPcmRecorder"})
    /\ id \in GenerateId
    /\ IF throws
       THEN /\ StartCatch(t, calls, currentSession)
            /\ UNCHANGED <<pcmRecorder, now>>
       ELSE /\ recorders' = Append(recorders,
                                   [port |-> TRUE, live |-> TRUE, listeners |-> 0])
            /\ pcmRecorder' = Len(recorders) + 1
            /\ now' = id[1]
            /\ calls' = AddCall(NewCall("createSession", t, NoId, NoFloats, id))
            /\ tasks' = [tasks EXCEPT ![t].pc = "createSession"]
            /\ UNCHANGED <<error, isRecording>>
    /\ UNCHANGED <<storeVars, issued, callNo, pcmArrays, totalSamples, isProcessing,
                   audioBlob, audioUrl, currentSession, recordingInterval,
                   captured, fs, mounted, starts, stops, stoppedCalls>>
    /\ Fault(throws)
    /\ UNCHANGED timeVars

\* startRecording that keeps the session id it already holds, the one of
\* the recording before.
StartCreateSessionReturnKeepsSession(t, c) ==
    /\ At(t, {"startRecording"}, {"createSession"})
    /\ Settled(t, c)
    /\ IF calls[c].pc = "err"
       THEN /\ StartCatch(t, DropCall(c), currentSession)
            /\ UNCHANGED <<currentSession, recordingInterval, timeVars>>
       ELSE /\ currentSession' = IF currentSession = NoId THEN calls[c].result
                               ELSE currentSession
            /\ IF pcmRecorder = 0
               THEN /\ StartCatch(t, DropCall(c), calls[c].result)
                    /\ UNCHANGED <<recordingInterval, timeVars>>
               ELSE /\ isRecording' = TRUE
                    /\ StartTime
                    /\ recorders' = [recorders EXCEPT ![pcmRecorder].listeners = @ + 1]
                    /\ tasks' = Done(t)
                    /\ calls' = DropCall(c)
                    /\ UNCHANGED error
    /\ UNCHANGED <<storeVars, now, issued, callNo, pcmRecorder, pcmArrays,
                   totalSamples, isProcessing, audioBlob, audioUrl, captured, fs,
                   mounted, starts, stops, stoppedCalls>>
    /\ UNCHANGED faults

\* createSession returns: the session id is kept, onRecordingStarted reads
\* pcmRecorder.stream (a TypeError without a recorder), the state becomes
\* Recording, the timer starts and the listener is registered.  Or it throws.
StartCreateSessionReturn(t, c) ==
    /\ At(t, {"startRecording"}, {"createSession"})
    /\ Settled(t, c)
    /\ IF calls[c].pc = "err"
       THEN /\ StartCatch(t, DropCall(c), currentSession)
            /\ UNCHANGED <<currentSession, recordingInterval, timeVars>>
       ELSE /\ currentSession' = calls[c].result
            /\ IF pcmRecorder = 0
               THEN /\ StartCatch(t, DropCall(c), calls[c].result)
                    /\ UNCHANGED <<recordingInterval, timeVars>>
               ELSE /\ isRecording' = TRUE
                    /\ StartTime
                    /\ recorders' = [recorders EXCEPT ![pcmRecorder].listeners = @ + 1]
                    /\ tasks' = Done(t)
                    /\ calls' = DropCall(c)
                    /\ UNCHANGED error
    /\ UNCHANGED <<storeVars, now, issued, callNo, pcmRecorder, pcmArrays,
                   totalSamples, isProcessing, audioBlob, audioUrl, captured, fs,
                   mounted, starts, stops, stoppedCalls>>
    /\ UNCHANGED faults

\* The catch block after deleteSession: currentSession is cleared when the
\* delete succeeded, a failure is logged; abortRecording is called.
StartDeleteSessionReturn(t, c) ==
    /\ At(t, {"startRecording"}, {"deleteSession"})
    /\ Settled(t, c)
    /\ currentSession' = IF calls[c].pc = "ok" THEN NoId ELSE currentSession
    /\ calls' = DropCall(c)
    /\ AbortRecordingBegin(t)
    /\ UNCHANGED <<storeVars, now, issued, callNo, pcmRecorder, pcmArrays,
                   totalSamples, isProcessing, error, audioBlob, audioUrl,
                   recordingInterval, captured, fs, mounted, starts, stops, stoppedCalls>>
    /\ UNCHANGED <<faults, timeVars>>

\* -------------------------------------------------------- stopRecording
\* The stop button is shown while isRecording is true.  stopRecording calls
\* appendMp3, which runs up to its first await.
BeginStop ==
    /\ mounted /\ isRecording
    /\ stops' = stops + 1
    /\ LET st == AppendMp3Begin(Acc, "stopRecording")
       IN /\ pcmArrays' = st.pcmArrays
          /\ totalSamples' = st.totalSamples
          /\ tasks' = st.tasks
    /\ UNCHANGED <<storeVars, now, calls, issued, callNo, pcmRecorder, isRecording,
                   isProcessing, error, audioBlob, audioUrl, currentSession,
                   recordingInterval, recorders, captured, fs, mounted, starts,
                   stoppedCalls>>
    /\ UNCHANGED <<faults, timeVars>>

StopRecording == stops < MaxStops /\ BeginStop

\* The final appendMp3 returns (a rejection of storeAudioChunk was caught)
\* and abortRecording is called.
StopAppendMp3Return(t, c) ==
    /\ At(t, {"stopRecording"}, {"store"})
    /\ Settled(t, c)
    /\ IF pcmRecorder = 0
       THEN /\ StopAfterAbort(t, DropCall(c))
            /\ UNCHANGED <<isRecording, recorders>>
       ELSE /\ calls' = DropCall(c)
            /\ isRecording' = FALSE
            /\ recorders' = RecorderStop(pcmRecorder)
            /\ tasks' = [tasks EXCEPT ![t].pc = "abortRecording"]
            /\ UNCHANGED isProcessing
    /\ UNCHANGED <<storeVars, now, issued, callNo, pcmRecorder, pcmArrays,
                   totalSamples, error, audioBlob, audioUrl, currentSession,
                   recordingInterval, captured, fs, mounted, starts, stops, stoppedCalls>>
    /\ UNCHANGED <<faults, timeVars>>

\* getSession returns: the not-found check, then getSessionChunks is called.
StopGetSessionReturn(t, c) ==
    /\ At(t, {"stopRecording"}, {"getSession"})
    /\ Settled(t, c)
    /\ IF calls[c].session = NoRow
       THEN /\ tasks' = Thrown(t, "Session not found")
            /\ calls' = DropCall(c)
       ELSE /\ tasks' = [tasks EXCEPT ![t].pc = "getSessionChunks",
                                      ![t].session = currentSession]
            /\ calls' = AddCallTo(DropCall(c),
                           NewCall("getSessionChunks", t, currentSession,
                                   NoFloats, NoId))
    /\ UNCHANGED <<storeVars, now, issued, callNo, orchVars, envVars>>
    /\ UNCHANGED <<faults, timeVars>>

StopPublishNoUrl(t, mp3Blob, cs) ==
    /\ audioBlob' = mp3Blob
    /\ audioUrl' = audioUrl
    /\ calls' = AddCallTo(cs, NewCall("deleteSession", t, currentSession,
                                      NoFloats, NoId))
    /\ tasks' = [tasks EXCEPT ![t].pc = "deleteSession", ![t].mp3 = NoFloats,
                              ![t].buffers = IF @ = <<>> THEN <<mp3Blob>> ELSE @]

\* stopRecording from the blob concatMp3 returned up to the next await: the
\* outputs are set and deleteSession is called.
StopPublish(t, mp3Blob, cs) ==
    /\ audioBlob' = mp3Blob
    /\ audioUrl' = mp3Blob
    /\ calls' = AddCallTo(cs, NewCall("deleteSession", t, currentSession,
                                      NoFloats, NoId))
    /\ tasks' = [tasks EXCEPT ![t].pc = "deleteSession", ![t].mp3 = NoFloats,
                              ![t].buffers = IF @ = <<>> THEN <<mp3Blob>> ELSE @]

\* The bytes of the given MP3 buffers one after the other.
ConcatData(buffers) == Flatten([i \in 1..Len(buffers) |-> buffers[i].data])

\* concatMp3 without the shortcut for one buffer: every list that is not
\* empty goes to the engine.
StopGetSessionChunksReturnAlwaysConcats(t, c) ==
    /\ At(t, {"stopRecording"}, {"getSessionChunks"})
    /\ Settled(t, c)
    /\ LET buffers == calls[c].result
       IN IF Len(buffers) = 0
          THEN tasks' = Thrown(t, "No MP3 blobs provided")
          ELSE tasks' = [tasks EXCEPT ![t].pc = "concatLoad",
                                      ![t].buffers = buffers,
                                      ![t].data = Mp3(ConcatData(buffers))]
    /\ calls' = DropCall(c)
    /\ UNCHANGED <<audioBlob, audioUrl>>
    /\ UNCHANGED <<storeVars, now, issued, callNo, pcmRecorder, pcmArrays,
                   totalSamples, isRecording, isProcessing, error, currentSession,
                   recordingInterval, envVars>>
    /\ UNCHANGED <<faults, timeVars>>

\* getSessionChunks returns and concatMp3 is called: it throws on no buffer,
\* returns the only buffer as a blob, or suspends at ffmpeg.load().
StopGetSessionChunksReturn(t, c) ==
    /\ At(t, {"stopRecording"}, {"getSessionChunks"})
    /\ Settled(t, c)
    /\ LET buffers == calls[c].result
       IN IF Len(buffers) = 0
          THEN /\ tasks' = Thrown(t, "No MP3 blobs provided")
               /\ calls' = DropCall(c)
               /\ UNCHANGED <<audioBlob, audioUrl>>
          ELSE IF Len(buffers) = 1
          THEN StopPublish(t, buffers[1], DropCall(c))
          ELSE /\ tasks' = [tasks EXCEPT ![t].pc = "concatLoad",
                                         ![t].buffers = buffers,
                                         ![t].data = Mp3(ConcatData(buffers))]
               /\ calls' = DropCall(c)
               /\ UNCHANGED <<audioBlob, audioUrl>>
    /\ UNCHANGED <<storeVars, now, issued, callNo, pcmRecorder, pcmArrays,
                   totalSamples, isRecording, isProcessing, error, currentSession,
                   recordingInterval, envVars>>
    /\ UNCHANGED <<faults, timeVars>>

\* concatMp3: the loop of ffmpeg.writeFile(`input${i}.mp3`, ...).  No other
\* function uses these names, so the writes are one step.
ConcatWriteInputs(t) ==
    /\ At(t, {"stopRecording"}, {"concatWrite"})
    /\ fs' = [fs EXCEPT !["input{i}.mp3"] = tasks[t].data]
    /\ tasks' = [tasks EXCEPT ![t].pc = "concatList", ![t].data = NoFloats]
    /\ FfmpegFrame
    /\ UNCHANGED <<faults, timeVars>>

\* concatMp3: ffmpeg.writeFile("files.txt", ...).
ConcatWriteList(t) ==
    /\ At(t, {"stopRecording"}, {"concatList"})
    /\ fs' = [fs EXCEPT !["files.txt"] = [kind |-> "txt", data |-> <<>>]]
    /\ tasks' = [tasks EXCEPT ![t].pc = "concatExec"]
    /\ FfmpegFrame
    /\ UNCHANGED <<faults, timeVars>>

\* concatMp3: ffmpeg.exec(... "-i", "files.txt", ..., "output.mp3").
ConcatExec(t, throws, overwrites) ==
    /\ At(t, {"stopRecording"}, {"concatExec"})
    /\ IF throws
       THEN /\ tasks' = [tasks EXCEPT ![t].pc = "concatClean", ![t].threw = TRUE]
            /\ UNCHANGED fs
       ELSE /\ tasks' = [tasks EXCEPT ![t].pc = "concatRead"]
            /\ fs' = IF \/ fs["files.txt"] = NoFile
                        \/ fs["input{i}.mp3"] = NoFile
                        \/ (fs["output.mp3"] # NoFile /\ ~overwrites)
                     THEN fs
                     ELSE [fs EXCEPT !["output.mp3"] = fs["input{i}.mp3"]]
    /\ FfmpegFrame
    /\ Fault(throws)
    /\ UNCHANGED timeVars

\* concatMp3: ffmpeg.readFile("output.mp3") and toBlob, or the read throws.
ConcatRead(t) ==
    /\ At(t, {"stopRecording"}, {"concatRead"})
    /\ tasks' = IF fs["output.mp3"] = NoFile
                THEN [tasks EXCEPT ![t].pc = "concatClean", ![t].threw = TRUE]
                ELSE [tasks EXCEPT ![t].pc = "concatClean", ![t].mp3 = fs["output.mp3"]]
    /\ UNCHANGED fs
    /\ FfmpegFrame
    /\ UNCHANGED <<faults, timeVars>>

\* concatMp3, finally: the input files and files.txt are deleted.
ConcatDeleteInputs(t) ==
    /\ At(t, {"stopRecording"}, {"concatClean"})
    /\ fs' = [fs EXCEPT !["input{i}.mp3"] = NoFile, !["files.txt"] = NoFile]
    /\ tasks' = [tasks EXCEPT ![t].pc = "concatDelete"]
    /\ FfmpegFrame
    /\ UNCHANGED <<faults, timeVars>>

ConcatDeleteOutputFallsBack(t) ==
    /\ At(t, {"stopRecording"}, {"concatDelete"})
    /\ fs' = [fs EXCEPT !["output.mp3"] = NoFile]
    /\ IF tasks[t].threw
       THEN /\ tasks' = Thrown(t, "concatMp3")
            /\ audioBlob' = tasks[t].buffers[1]
            /\ audioUrl' = tasks[t].buffers[1]
            /\ UNCHANGED calls
       ELSE StopPublish(t, tasks[t].mp3, calls)
    /\ UNCHANGED <<storeVars, now, issued, callNo, pcmRecorder, pcmArrays,
                   totalSamples, isRecording, isProcessing, error, currentSession,
                   recordingInterval, recorders, captured, mounted, starts, stops,
                   stoppedCalls>>
    /\ UNCHANGED <<faults, timeVars>>

\* concatMp3, finally: deleteFile("output.mp3"); then concatMp3 returns the
\* blob, or rethrows and stopRecording throws.
ConcatDeleteOutput(t) ==
    /\ At(t, {"stopRecording"}, {"concatDelete"})
    /\ fs' = [fs EXCEPT !["output.mp3"] = NoFile]
    /\ IF tasks[t].threw
       THEN /\ tasks' = Thrown(t, "concatMp3")
            /\ UNCHANGED <<calls, audioBlob, audioUrl>>
       ELSE StopPublish(t, tasks[t].mp3, calls)
    /\ UNCHANGED <<storeVars, now, issued, callNo, pcmRecorder, pcmArrays,
                   totalSamples, isRecording, isProcessing, error, currentSession,
                   recordingInterval, recorders, captured, mounted, starts, stops,
                   stoppedCalls>>
    /\ UNCHANGED <<faults, timeVars>>

\* deleteSession returns: onRecordingStopped is called with the outputs and
\* isProcessing is cleared.  Or it throws and stopRecording throws.
StopDeleteSessionReturn(t, c) ==
    /\ At(t, {"stopRecording"}, {"deleteSession"})
    /\ Settled(t, c)
    /\ calls' = DropCall(c)
    /\ IF calls[c].pc = "err"
       THEN /\ tasks' = Thrown(t, "deleteSession")
            /\ UNCHANGED <<isProcessing, stoppedCalls>>
       ELSE /\ tasks' = Done(t)
            /\ isProcessing' = FALSE
            /\ stoppedCalls' = Append(stoppedCalls,
                   [audioBlob |-> audioBlob, audioUrl |-> audioUrl,
                    session |-> tasks[t].session,
                    buffers |-> tasks[t].buffers,
                    deleteSession |-> calls[c]])
    /\ UNCHANGED <<storeVars, now, issued, callNo, pcmRecorder, pcmArrays,
                   totalSamples, isRecording, error, audioBlob, audioUrl,
                   currentSession, recordingInterval, recorders, captured, fs,
                   mounted, starts, stops>>
    /\ UNCHANGED <<faults, timeVars>>

\* ------------------------------------------------- a client of the store
\* The client issues one call after the other: the next call starts only
\* when no call is in flight.  generateId() runs in the synchronous prefix
\* of createSession and storeAudioChunk.
Payloads == {F32(d) : d \in SeqsUpTo(MaxFloats)}

\* The session ids a client passes: every stored one and one that is not.
ClientSessionIds ==
    DOMAIN audioSessions \cup
        (IF DOMAIN audioSessions = Ids THEN {}
         ELSE {CHOOSE k \in Ids \ DOMAIN audioSessions :
                   \A j \in Ids \ DOMAIN audioSessions : k = j \/ IdLess(k, j)})

ClientCall ==
    /\ DOMAIN calls = {}
    /\ issued < MaxCalls
    /\ issued' = issued + 1
    /\ \/ \E id \in GenerateId :
             /\ calls' = AddCall(NewCall("createSession", 0, NoId, NoFloats, id))
             /\ now' = id[1]
       \/ \E id \in GenerateId, sessionId \in ClientSessionIds, floats \in Payloads :
             /\ calls' = AddCall(NewCall("storeAudioChunk", 0, sessionId, floats, id))
             /\ now' = id[1]
       \/ \E sessionId \in ClientSessionIds :
             /\ calls' = AddCall(NewCall("deleteSession", 0, sessionId, NoFloats, NoId))
             /\ UNCHANGED now
    /\ UNCHANGED <<storeVars, callNo, appVars>>
    /\ UNCHANGED <<faults, timeVars>>

\* The read-only methods, issued the same way.
ClientQuery ==
    /\ DOMAIN calls = {}
    /\ \/ \E sessionId \in ClientSessionIds, op \in {"getSessionChunks", "getSession"} :
             calls' = AddCall(NewCall(op, 0, sessionId, NoFloats, NoId))
       \/ calls' = AddCall(NewCall("getAllSessions", 0, NoId, NoFloats, NoId))
    /\ UNCHANGED <<storeVars, now, issued, callNo, appVars>>
    /\ UNCHANGED <<faults, timeVars>>

\* The client's await returns (or throws): the activation is gone.
ClientReturn ==
    /\ \E c \in DOMAIN calls :
          /\ calls[c].caller = 0
          /\ calls[c].pc \in {"ok", "err"}
          /\ calls' = DropCall(c)
    /\ UNCHANGED <<storeVars, now, issued, callNo, appVars>>
    /\ UNCHANGED <<faults, timeVars>>

\* The page is killed: every activation and the running transaction are
\* gone, the committed tables stay.
PageKill ==
    /\ DOMAIN calls # {}
    /\ calls' = <<>>
    /\ tx' = NoTx
    /\ UNCHANGED <<audioSessions, audioChunks, now, issued, callNo, appVars>>
    /\ UNCHANGED <<faults, timeVars>>

StoreInit ==
    /\ audioSessions = <<>>
    /\ audioChunks = <<>>
    /\ tx = NoTx
    /\ now = 0
    /\ calls = <<>>
    /\ issued = 0
    /\ callNo = <<>>
    /\ AppInit

StoreNext ==
    \/ ClientCall
    \/ ClientQuery
    \/ ClientReturn
    \/ \E c \in DOMAIN calls : CreateSessionAdd(c)
    \/ \E c \in DOMAIN calls : StoreGet(c)
    \/ \E c \in DOMAIN calls, fails \in BOOLEAN : StoreTxAdd(c, fails)
    \/ \E c \in DOMAIN calls, fails \in BOOLEAN : StoreTxPut(c, fails)
    \/ \E c \in DOMAIN calls : StoreTxCommit(c)
    \/ \E c \in DOMAIN calls : GetSessionChunksQuery(c)
    \/ \E c \in DOMAIN calls : GetSessionGet(c)
    \/ \E c \in DOMAIN calls : DeleteGet(c)
    \/ \E c \in DOMAIN calls, fails \in BOOLEAN : DeleteTxChunks(c, fails)
    \/ \E c \in DOMAIN calls, fails \in BOOLEAN : DeleteTxSession(c, fails)
    \/ \E c \in DOMAIN calls : DeleteTxCommit(c)
    \/ \E c \in DOMAIN calls : GetAllSessionsQuery(c)
    \/ PageKill

StoreSpec == StoreInit /\ [][StoreNext]_vars

\* ------------------------------------------------------ useAudioSessions
DeleteOldSessionsDaysInterval == 7
MaxSessionsToKeep == 10

\* The options of a useAudioSessions instance, kept in its activation.
SessionOptions(days, keep) == [kind |-> "options", data |-> <<days, keep>>]

\* onMounted of useAudioSessions up to its first await, as the only
\* activation (ts holds the others): clearSessionsOlderThan is called, which
\* reads the clock at t and computes the cutoff string before it suspends.
OnMounted(ts, cs, days, keep, t) ==
    /\ t \in now..MaxTime
    /\ now' = t
    /\ tasks' = Append(ts, [Task("onMounted", "clearSessionsOlderThan") EXCEPT
                               !.data = SessionOptions(days, keep)])
    /\ calls' = AddCallTo(cs,
                   [NewCall("clearSessionsOlderThan", Len(ts) + 1, NoId, NoFloats, NoId)
                       EXCEPT !.arg = ToISOString(t - days)])

\* onMounted without the call of clearSessionOverThreshold.
MountedClearOlderReturnSkipsThreshold(t, c) ==
    /\ At(t, {"onMounted"}, {"clearSessionsOlderThan"})
    /\ Settled(t, c)
    /\ IF calls[c].pc = "err"
       THEN /\ tasks' = Thrown(t, calls[c].error)
            /\ calls' = DropCall(c)
       ELSE /\ tasks' = [tasks EXCEPT ![t].pc = "getAllSessions"]
            /\ calls' = AddCallTo(DropCall(c),
                   NewCall("getAllSessions", t, NoId, NoFloats, NoId))
    /\ UNCHANGED <<storeVars, now, issued, callNo, orchVars, envVars>>
    /\ UNCHANGED <<faults, timeVars>>

\* clearSessionsOlderThan returns and clearSessionOverThreshold is called, or
\* it throws and the onMounted hook rejects.
MountedClearOlderReturn(t, c) ==
    /\ At(t, {"onMounted"}, {"clearSessionsOlderThan"})
    /\ Settled(t, c)
    /\ IF calls[c].pc = "err"
       THEN /\ tasks' = Thrown(t, calls[c].error)
            /\ calls' = DropCall(c)
       ELSE /\ tasks' = [tasks EXCEPT ![t].pc = "clearSessionOverThreshold"]
            /\ calls' = AddCallTo(DropCall(c),
                   [NewCall("clearSessionOverThreshold", t, NoId, NoFloats, NoId)
                       EXCEPT !.arg = tasks[t].data.data[2]])
    /\ UNCHANGED <<storeVars, now, issued, callNo, orchVars, envVars>>
    /\ UNCHANGED <<faults, timeVars>>

\* clearSessionOverThreshold returns and getAllSessions is called, or it
\* throws and the onMounted hook rejects.
MountedClearOverReturn(t, c) ==
    /\ At(t, {"onMounted"}, {"clearSessionOverThreshold"})
    /\ Settled(t, c)
    /\ IF calls[c].pc = "err"
       THEN /\ tasks' = Thrown(t, calls[c].error)
            /\ calls' = DropCall(c)
       ELSE /\ tasks' = [tasks EXCEPT ![t].pc = "getAllSessions"]
            /\ calls' = AddCallTo(DropCall(c),
                   NewCall("getAllSessions", t, NoId, NoFloats, NoId))
    /\ UNCHANGED <<storeVars, now, issued, callNo, orchVars, envVars>>
    /\ UNCHANGED <<faults, timeVars>>

\* getAllSessions returns: abandonedRecording.value is set (kept in buffers)
\* and then isReady.value (pc "ready").
MountedGetAllSessionsReturn(t, c) ==
    /\ At(t, {"onMounted"}, {"getAllSessions"})
    /\ Settled(t, c)
    /\ tasks' = [tasks EXCEPT ![t].pc = "ready", ![t].buffers = calls[c].result]
    /\ calls' = DropCall(c)
    /\ UNCHANGED <<storeVars, now, issued, callNo, orchVars, envVars>>
    /\ UNCHANGED <<faults, timeVars>>

\* The page is killed while a recording runs and is loaded again: the
\* activations, the running transaction, the recorder and the FFmpeg
\* instance are gone, the committed tables stay, and the new page mounts
\* useAudioSessions with its default options.
PageReload(t) ==
    /\ isRecording
    /\ tx' = NoTx
    /\ OnMounted(<<>>, <<>>, DeleteOldSessionsDaysInterval, MaxSessionsToKeep, t)
    /\ pcmRecorder' = 0 /\ pcmArrays' = <<>> /\ totalSamples' = 0
    /\ isRecording' = FALSE /\ isProcessing' = FALSE /\ error' = ""
    /\ audioBlob' = NoBlob /\ audioUrl' = NoBlob /\ currentSession' = NoId
    /\ recordingInterval' = FALSE
    /\ recorders' = <<>>
    /\ fs' = [f \in FileNames |-> NoFile]
    /\ stoppedCalls' = <<>>
    /\ UNCHANGED <<audioSessions, audioChunks, issued, callNo, captured, mounted,
                   starts, stops>>
    /\ UNCHANGED <<faults, timeVars>>

\* A recording that is not stopped, with up to two flush intervals of
\* frames and no failure of the environment, the kill of its page and the
\* next load.
AbandonNext ==
    \/ StartRecording
    \/ \E t \in DOMAIN tasks : StartMicrophoneChecked(t, TRUE)
    \/ \E t \in DOMAIN tasks, id \in GenerateId : StartPcmRecorderReturn(t, FALSE, id)
    \/ \E t \in DOMAIN tasks, c \in DOMAIN calls : StartCreateSessionReturn(t, c)
    \/ \E r \in DOMAIN recorders : captured < 2 * StoreToDbInterval /\ PostFrame(r)
    \/ \E t \in DOMAIN tasks : FfmpegLoad(t)
    \/ \E t \in DOMAIN tasks : PcmWrite(t)
    \/ \E t \in DOMAIN tasks, overwrites \in BOOLEAN : PcmExec(t, FALSE, overwrites)
    \/ \E t \in DOMAIN tasks : PcmRead(t)
    \/ \E t \in DOMAIN tasks : PcmDeleteInput(t)
    \/ \E t \in DOMAIN tasks : PcmDeleteOutput(t)
    \/ \E t \in DOMAIN tasks, id \in GenerateId : BlobArrayBuffer(t, id)
    \/ \E t \in DOMAIN tasks, c \in DOMAIN calls : ListenerReturn(t, c)
    \/ \E c \in DOMAIN calls : CreateSessionAdd(c)
    \/ \E c \in DOMAIN calls : StoreGet(c)
    \/ \E c \in DOMAIN calls : StoreTxAdd(c, FALSE)
    \/ \E c \in DOMAIN calls : StoreTxPut(c, FALSE)
    \/ \E c \in DOMAIN calls : StoreTxCommit(c)
    \/ \E t \in now..MaxTime : PageReload(t)
    \/ \E c \in DOMAIN calls : ClearOlderQuery(c)
    \/ \E c \in DOMAIN calls : ClearOverQuery(c)
    \/ \E c \in DOMAIN calls : GetAllSessionsQuery(c)
    \/ \E t \in DOMAIN tasks, c \in DOMAIN calls : MountedClearOlderReturn(t, c)
    \/ \E t \in DOMAIN tasks, c \in DOMAIN calls : MountedClearOverReturn(t, c)
    \/ \E t \in DOMAIN tasks, c \in DOMAIN calls : MountedGetAllSessionsReturn(t, c)

AbandonSpec == StoreInit /\ [][AbandonNext]_vars

\* ------------------------------------- sessions left by earlier page loads
\* The session created at time t by createSession, and its chunk, stored at
\* the same time.
LeftSession(t) ==
    [id |-> <<t, 0>>, createdAt |-> ToISOString(t),
     chunkCount |-> 0, totalSize |-> 0, chunkIds |-> <<>>,
     sampleRate |-> 1, numChannels |-> 1]
LeftChunk(t) ==
    [id |-> <<t, 1>>, sessionId |-> <<t, 0>>, createdAt |-> ToISOString(t),
     floats |-> F32(<<1>>)]

\* The store holds sessions created at some of the times -MaxAge..-1, one a
\* time, some of them with one chunk and the others with none.
EvictInit ==
    /\ \E S \in SUBSET ((-MaxAge)..(-1)) : \E W \in SUBSET S :
          /\ audioSessions = [k \in {<<t, 0>> : t \in S} |->
                 IF k[1] \in W
                 THEN UpdatedSession(LeftSession(k[1]), <<k[1], 1>>, F32(<<1>>))
                 ELSE LeftSession(k[1])]
          /\ audioChunks = [k \in {<<t, 1>> : t \in W} |-> LeftChunk(k[1])]
          /\ callNo = [k \in {<<t, 1>> : t \in W} |-> 0]
    /\ tx = NoTx
    /\ now = 0
    /\ calls = <<>>
    /\ issued = 0
    /\ AppInit

\* A client calls one of the two clear methods while no call is in flight
\* and useAudioSessions is not mounted.  Date.now() is read in the
\* synchronous prefix of clearSessionsOlderThan.  `pre` keeps the tables,
\* the time and the argument of the call.
EvictCall ==
    /\ DOMAIN calls = {} /\ tasks = <<>>
    /\ issued < MaxCalls
    /\ issued' = issued + 1
    /\ \/ \E t \in now..MaxTime, days \in 0..MaxDays :
             /\ now' = t
             /\ calls' = AddCall(
                   [NewCall("clearSessionsOlderThan", 0, NoId, NoFloats, NoId)
                       EXCEPT !.arg = ToISOString(t - days),
                              !.pre = <<audioSessions, audioChunks, t, days>>])
       \/ \E maxSessions \in 0..MaxKeep :
             /\ UNCHANGED now
             /\ calls' = AddCall(
                   [NewCall("clearSessionOverThreshold", 0, NoId, NoFloats, NoId)
                       EXCEPT !.arg = maxSessions,
                              !.pre = <<audioSessions, audioChunks, now, maxSessions>>])
    /\ UNCHANGED <<storeVars, callNo, appVars>>
    /\ UNCHANGED <<faults, timeVars>>

\* The page mounts useAudioSessions with the options given.
Mount(t, days, keep) ==
    /\ DOMAIN calls = {} /\ tasks = <<>>
    /\ OnMounted(tasks, calls, days, keep, t)
    /\ UNCHANGED <<storeVars, issued, callNo, orchVars, envVars>>
    /\ UNCHANGED <<faults, timeVars>>

EvictNext ==
    \/ EvictCall
    \/ ClientReturn
    \/ \E t \in now..MaxTime, days \in 0..MaxDays, keep \in 0..MaxKeep : Mount(t, days, keep)
    \/ \E c \in DOMAIN calls : ClearOlderQuery(c)
    \/ \E c \in DOMAIN calls : ClearOverQuery(c)
    \/ \E c \in DOMAIN calls, d \in DOMAIN calls : ClearDeleteReturn(c, d)
    \/ \E c \in DOMAIN calls : DeleteGet(c)
    \/ \E c \in DOMAIN calls, fails \in BOOLEAN : DeleteTxChunks(c, fails)
    \/ \E c \in DOMAIN calls, fails \in BOOLEAN : DeleteTxSession(c, fails)
    \/ \E c \in DOMAIN calls : DeleteTxCommit(c)
    \/ \E c \in DOMAIN calls : GetAllSessionsQuery(c)
    \/ \E t \in DOMAIN tasks, c \in DOMAIN calls : MountedClearOlderReturn(t, c)
    \/ \E t \in DOMAIN tasks, c \in DOMAIN calls : MountedClearOverReturn(t, c)
    \/ \E t \in DOMAIN tasks, c \in DOMAIN calls : MountedGetAllSessionsReturn(t, c)

EvictSpec == EvictInit /\ [][EvictNext]_vars

\* ------------------------------------------- one recording, flush by flush
\* No activation of the orchestrator is in flight.
Quiet == \A u \in DOMAIN tasks : tasks[u].pc \in {"done", "failed"}

CycleInit ==
    /\ audioSessions = <<>>
    /\ audioChunks = <<>>
    /\ tx = NoTx
    /\ now = -MaxElapsed
    /\ calls = <<>>
    /\ issued = 0
    /\ callNo = <<>>
    /\ AppInit

\* One recording whose frames arrive while no flush is in progress, up to
\* FlushIntervals flush intervals of them, stopped between two frames, with
\* no failure of the environment.
CycleNext ==
    \/ StartRecording
    \/ Quiet /\ StopRecording
    \/ \E r \in DOMAIN recorders :
          Quiet /\ captured < FlushIntervals * StoreToDbInterval /\ PostFrame(r)
    \/ \E t \in DOMAIN tasks : StartMicrophoneChecked(t, TRUE)
    \/ \E t \in DOMAIN tasks, id \in GenerateId : StartPcmRecorderReturn(t, FALSE, id)
    \/ \E t \in DOMAIN tasks, c \in DOMAIN calls : StartCreateSessionReturn(t, c)
    \/ \E t \in DOMAIN tasks : FfmpegLoad(t)
    \/ \E t \in DOMAIN tasks : PcmWrite(t)
    \/ \E t \in DOMAIN tasks, overwrites \in BOOLEAN : PcmExec(t, FALSE, overwrites)
    \/ \E t \in DOMAIN tasks : PcmRead(t)
    \/ \E t \in DOMAIN tasks : PcmDeleteInput(t)
    \/ \E t \in DOMAIN tasks : PcmDeleteOutput(t)
    \/ \E t \in DOMAIN tasks, id \in GenerateId : BlobArrayBuffer(t, id)
    \/ \E t \in DOMAIN tasks, c \in DOMAIN calls : ListenerReturn(t, c)
    \/ \E t \in DOMAIN tasks, c \in DOMAIN calls : StopAppendMp3Return(t, c)
    \/ \E t \in DOMAIN tasks : AbortRecordingReturn(t, FALSE)
    \/ \E t \in DOMAIN tasks, c \in DOMAIN calls : StopGetSessionReturn(t, c)
    \/ \E t \in DOMAIN tasks, c \in DOMAIN calls : StopGetSessionChunksReturn(t, c)
    \/ \E t \in DOMAIN tasks : ConcatWriteInputs(t)
    \/ \E t \in DOMAIN tasks : ConcatWriteList(t)
    \/ \E t \in DOMAIN tasks, overwrites \in BOOLEAN : ConcatExec(t, FALSE, overwrites)
    \/ \E t \in DOMAIN tasks : ConcatRead(t)
    \/ \E t \in DOMAIN tasks : ConcatDeleteInputs(t)
    \/ \E t \in DOMAIN tasks : ConcatDeleteOutput(t)
    \/ \E t \in DOMAIN tasks, c \in DOMAIN calls : StopDeleteSessionReturn(t, c)
    \/ \E c \in DOMAIN calls : CreateSessionAdd(c)
    \/ \E c \in DOMAIN calls : StoreGet(c)
    \/ \E c \in DOMAIN calls : StoreTxAdd(c, FALSE)
    \/ \E c \in DOMAIN calls : StoreTxPut(c, FALSE)
    \/ \E c \in DOMAIN calls : StoreTxCommit(c)
    \/ \E c \in DOMAIN calls : GetSessionChunksQuery(c)
    \/ \E c \in DOMAIN calls : GetSessionGet(c)
    \/ \E c \in DOMAIN calls : DeleteGet(c)
    \/ \E c \in DOMAIN calls : DeleteTxChunks(c, FALSE)
    \/ \E c \in DOMAIN calls : DeleteTxSession(c, FALSE)
    \/ \E c \in DOMAIN calls : DeleteTxCommit(c)

CycleSpec == CycleInit /\ [][CycleNext]_vars

\* ------------------------------------------ a recording with failing flushes
\* One recording that is not stopped, whose frames arrive while no flush is
\* in progress, up to FlushIntervals flush intervals of them; the encoder
\* and the store transactions fail up to MaxFaults times.
FlushNext ==
    \/ starts = 0 /\ StartRecording
    \/ \E r \in DOMAIN recorders :
          Quiet /\ captured < FlushIntervals * StoreToDbInterval /\ PostFrame(r)
    \/ \E t \in DOMAIN tasks : StartMicrophoneChecked(t, TRUE)
    \/ \E t \in DOMAIN tasks, id \in GenerateId : StartPcmRecorderReturn(t, FALSE, id)
    \/ \E t \in DOMAIN tasks, c \in DOMAIN calls : StartCreateSessionReturn(t, c)
    \/ \E t \in DOMAIN tasks : FfmpegLoad(t)
    \/ \E t \in DOMAIN tasks : PcmWrite(t)
    \/ \E t \in DOMAIN tasks, throws \in BOOLEAN, overwrites \in BOOLEAN :
          PcmExec(t, throws, overwrites)
    \/ \E t \in DOMAIN tasks : PcmRead(t)
    \/ \E t \in DOMAIN tasks : PcmDeleteInput(t)
    \/ \E t \in DOMAIN tasks : PcmDeleteOutput(t)
    \/ \E t \in DOMAIN tasks, id \in GenerateId : BlobArrayBuffer(t, id)
    \/ \E t \in DOMAIN tasks, c \in DOMAIN calls : ListenerReturn(t, c)
    \/ \E c \in DOMAIN calls : CreateSessionAdd(c)
    \/ \E c \in DOMAIN calls : StoreGet(c)
    \/ \E c \in DOMAIN calls, fails \in BOOLEAN : StoreTxAdd(c, fails)
    \/ \E c \in DOMAIN calls, fails \in BOOLEAN : StoreTxPut(c, fails)
    \/ \E c \in DOMAIN calls : StoreTxCommit(c)

FlushSpec == CycleInit /\ [][FlushNext]_vars

\* ------------------------------- a recording whose session is deleted
\* Another user of the store (deleteAbandonedRecording of useAudioSessions,
\* which lists the session of a running recording once it has a chunk)
\* deletes the session of the recording in progress.
DeleteCurrentSession ==
    /\ isRecording
    /\ currentSession \in DOMAIN audioSessions
    /\ \A c \in DOMAIN calls : calls[c].caller # 0
    /\ issued < MaxCalls
    /\ issued' = issued + 1
    /\ calls' = AddCall(NewCall("deleteSession", 0, currentSession, NoFloats, NoId))
    /\ UNCHANGED <<storeVars, now, callNo, appVars>>
    /\ UNCHANGED <<faults, timeVars>>

\* One recording that is not stopped, its flushes one at a time and without
\* failures of the encoder or of the transactions, and the deletion of its
\* session by another user of the store.
LostSessionNext ==
    \/ starts = 0 /\ StartRecording
    \/ DeleteCurrentSession
    \/ ClientReturn
    \/ \E r \in DOMAIN recorders :
          Quiet /\ captured < FlushIntervals * StoreToDbInterval /\ PostFrame(r)
    \/ \E t \in DOMAIN tasks : StartMicrophoneChecked(t, TRUE)
    \/ \E t \in DOMAIN tasks, id \in GenerateId : StartPcmRecorderReturn(t, FALSE, id)
    \/ \E t \in DOMAIN tasks, c \in DOMAIN calls : StartCreateSessionReturn(t, c)
    \/ \E t \in DOMAIN tasks : FfmpegLoad(t)
    \/ \E t \in DOMAIN tasks : PcmWrite(t)
    \/ \E t \in DOMAIN tasks, overwrites \in BOOLEAN : PcmExec(t, FALSE, overwrites)
    \/ \E t \in DOMAIN tasks : PcmRead(t)
    \/ \E t \in DOMAIN tasks : PcmDeleteInput(t)
    \/ \E t \in DOMAIN tasks : PcmDeleteOutput(t)
    \/ \E t \in DOMAIN tasks, id \in GenerateId : BlobArrayBuffer(t, id)
    \/ \E t \in DOMAIN tasks, c \in DOMAIN calls : ListenerReturn(t, c)
    \/ \E c \in DOMAIN calls : CreateSessionAdd(c)
    \/ \E c \in DOMAIN calls : StoreGet(c)
    \/ \E c \in DOMAIN calls : StoreTxAdd(c, FALSE)
    \/ \E c \in DOMAIN calls : StoreTxPut(c, FALSE)
    \/ \E c \in DOMAIN calls : StoreTxCommit(c)
    \/ \E c \in DOMAIN calls : DeleteGet(c)
    \/ \E c \in DOMAIN calls : DeleteTxChunks(c, FALSE)
    \/ \E c \in DOMAIN calls : DeleteTxSession(c, FALSE)
    \/ \E c \in DOMAIN calls : DeleteTxCommit(c)

LostSessionSpec == CycleInit /\ [][LostSessionNext]_vars

\* ------------------------------------------------------ the whole program
Init == StoreInit

Next ==
    \/ StartRecording
    \/ StopRecording
    \/ Unmount
    \/ \E r \in DOMAIN recorders : OnMessage(r)
    \/ \E t \in DOMAIN tasks, isAvailable \in BOOLEAN : StartMicrophoneChecked(t, isAvailable)
    \/ \E t \in DOMAIN tasks, throws \in BOOLEAN, id \in GenerateId :
          StartPcmRecorderReturn(t, throws, id)
    \/ \E t \in DOMAIN tasks, c \in DOMAIN calls : StartCreateSessionReturn(t, c)
    \/ \E t \in DOMAIN tasks, c \in DOMAIN calls : StartDeleteSessionReturn(t, c)
    \/ \E t \in DOMAIN tasks : FfmpegLoad(t)
    \/ \E t \in DOMAIN tasks : PcmWrite(t)
    \/ \E t \in DOMAIN tasks, throws \in BOOLEAN, overwrites \in BOOLEAN :
          PcmExec(t, throws, overwrites)
    \/ \E t \in DOMAIN tasks : PcmRead(t)
    \/ \E t \in DOMAIN tasks : PcmDeleteInput(t)
    \/ \E t \in DOMAIN tasks : PcmDeleteOutput(t)
    \/ \E t \in DOMAIN tasks, id \in GenerateId : BlobArrayBuffer(t, id)
    \/ \E t \in DOMAIN tasks, c \in DOMAIN calls : ListenerReturn(t, c)
    \/ \E t \in DOMAIN tasks, c \in DOMAIN calls : StopAppendMp3Return(t, c)
    \/ \E t \in DOMAIN tasks, throws \in BOOLEAN : AbortRecordingReturn(t, throws)
    \/ \E t \in DOMAIN tasks, c \in DOMAIN calls : StopGetSessionReturn(t, c)
    \/ \E t \in DOMAIN tasks, c \in DOMAIN calls : StopGetSessionChunksReturn(t, c)
    \/ \E t \in DOMAIN tasks : ConcatWriteInputs(t)
    \/ \E t \in DOMAIN tasks : ConcatWriteList(t)
    \/ \E t \in DOMAIN tasks, throws \in BOOLEAN, overwrites \in BOOLEAN :
          ConcatExec(t, throws, overwrites)
    \/ \E t \in DOMAIN tasks : ConcatRead(t)
    \/ \E t \in DOMAIN tasks : ConcatDeleteInputs(t)
    \/ \E t \in DOMAIN tasks : ConcatDeleteOutput(t)
    \/ \E t \in DOMAIN tasks, c \in DOMAIN calls : StopDeleteSessionReturn(t, c)
    \/ \E c \in DOMAIN calls : CreateSessionAdd(c)
    \/ \E c \in DOMAIN calls : StoreGet(c)
    \/ \E c \in DOMAIN calls, fails \in BOOLEAN : StoreTxAdd(c, fails)
    \/ \E c \in DOMAIN calls, fails \in BOOLEAN : StoreTxPut(c, fails)
    \/ \E c \in DOMAIN calls : StoreTxCommit(c)
    \/ \E c \in DOMAIN calls : GetSessionChunksQuery(c)
    \/ \E c \in DOMAIN calls : GetSessionGet(c)
    \/ \E c \in DOMAIN calls : DeleteGet(c)
    \/ \E c \in DOMAIN calls, fails \in BOOLEAN : DeleteTxChunks(c, fails)
    \/ \E c \in DOMAIN calls, fails \in BOOLEAN : DeleteTxSession(c, fails)
    \/ \E c \in DOMAIN calls : DeleteTxCommit(c)

Spec == Init /\ [][Next]_vars

\* -------------------------------------------------------------- properties
StoreCallsIn(pcs) ==
    {c \in DOMAIN calls : calls[c].op = "storeAudioChunk" /\ calls[c].pc \in pcs}

\* C1: after each successful storeAudioChunk of a sequence issued one after
\* another, the session's chunkCount equals the length of chunkIds and the
\* number of chunk rows of the session, chunkIds names exactly those rows,
\* and totalSize is the sum of their sizes.
C1_CountersMatchChunks ==
    \A c \in StoreCallsIn({"ok"}) :
        LET sid == calls[c].sessionId
            keys == ChunkKeysOf(audioChunks, sid)
        IN /\ sid \in DOMAIN audioSessions
           /\ audioSessions[sid].chunkCount = Len(audioSessions[sid].chunkIds)
           /\ audioSessions[sid].chunkCount = Cardinality(keys)
           /\ {audioSessions[sid].chunkIds[i] :
                   i \in 1..Len(audioSessions[sid].chunkIds)} = keys
           /\ audioSessions[sid].totalSize = SumSizes(audioChunks, keys)

C1_Witness ==
    \E c \in StoreCallsIn({"ok"}) :
        /\ audioSessions[calls[c].sessionId].chunkCount = 2
        /\ audioSessions[calls[c].sessionId].totalSize = 1

\* C2: when the transaction of storeAudioChunk fails at either write, or the
\* page dies while it runs, the committed tables are exactly what they were
\* when the call was issued.
C2_FailedAppendCommitsNothing ==
    [][\A c \in StoreCallsIn({"add", "put", "commit"}) :
          (c \notin DOMAIN calls' \/ calls'[c].pc = "err")
              => <<audioSessions', audioChunks'>> = calls[c].pre]_vars

C2_Witness ==
    \E c \in StoreCallsIn({"err"}) :
        /\ calls[c].error = "PutFailed"
        /\ calls[c].session.chunkCount = 1
        /\ <<audioSessions, audioChunks>> = calls[c].pre

\* The chunk ids of a set in the order of the calls that appended them.
RECURSIVE SortByCallNo(_)
SortByCallNo(S) ==
    IF S = {} THEN <<>>
    ELSE LET m == CHOOSE x \in S : \A y \in S : callNo[x] <= callNo[y]
         IN <<m>> \o SortByCallNo(S \ {m})

\* C3: getSessionChunks returns the payloads in the order in which
\* storeAudioChunk was called for the session, and that is the order of the
\* session's chunkIds.
C3_ChunksInAppendOrder ==
    \A c \in DOMAIN calls :
        (calls[c].op = "getSessionChunks" /\ calls[c].pc = "ok") =>
            LET sid == calls[c].sessionId
                ids == SortByCallNo(ChunkKeysOf(audioChunks, sid))
            IN /\ calls[c].result = [i \in 1..Len(ids) |-> audioChunks[ids[i]].floats]
               /\ sid \in DOMAIN audioSessions => audioSessions[sid].chunkIds = ids

\* Audio a was captured before audio b: both hold samples and every sample
\* of a is older than every sample of b.
CapturedBefore(a, b) ==
    /\ a # <<>> /\ b # <<>>
    /\ \A i \in 1..Len(a), j \in 1..Len(b) : a[i] < b[j]

\* No element of a sequence of MP3 buffers holds audio captured before the
\* audio of an element in front of it.
InCaptureOrder(buffers) ==
    \A i \in 1..Len(buffers), j \in 1..Len(buffers) :
        i < j => ~CapturedBefore(buffers[j].data, buffers[i].data)

\* The chunk payloads of a session in the order of its chunkIds.
ChunksByChunkIds(sid) ==
    LET ids == audioSessions[sid].chunkIds
    IN [i \in 1..Len(ids) |->
           IF ids[i] \in DOMAIN audioChunks THEN audioChunks[ids[i]].floats
           ELSE NoFloats]

StopsIn(pcs) == {t \in DOMAIN tasks : At(t, {"stopRecording"}, pcs)}

\* C4: in every reachable state the chunks of a session, taken in the order
\* of its chunkIds, hold audio in the order of its capture, and so do the
\* buffers stopRecording hands to concatMp3.
C4_ChunksInCaptureOrder ==
    /\ \A sid \in DOMAIN audioSessions : InCaptureOrder(ChunksByChunkIds(sid))
    /\ \A t \in StopsIn({"concatLoad", "deleteSession"}) :
          InCaptureOrder(tasks[t].buffers)

\* The activations inside pcmToMp3 and inside the FFmpeg part of concatMp3.
Encoding == {t \in DOMAIN tasks :
                At(t, {"onPCMData", "stopRecording"},
                   {"load", "write", "exec", "read", "del1", "del2"})}
Concatenating == StopsIn({"concatLoad", "concatWrite", "concatList", "concatExec",
                          "concatRead", "concatClean", "concatDelete"})

\* C5: in every reachable state at most one pcmToMp3 run is in progress, and
\* none is in progress while concatMp3 runs.
C5_FlushesSequential ==
    /\ Cardinality(Encoding) <= 1
    /\ Concatenating # {} => Encoding = {}

Retrieving == StopsIn({"getSession", "getSessionChunks", "concatLoad",
                       "concatWrite", "concatList", "concatExec", "concatRead",
                       "concatClean", "concatDelete", "deleteSession"})

\* C6: while a stopRecording run reads the session or its chunks or
\* concatenates them, its final flush has returned (no storeAudioChunk of
\* the run is in flight) and the recorder it was called with is released:
\* port closed, tracks stopped.
C6_FlushThenReleaseThenRetrieve ==
    \A t \in Retrieving :
        /\ \A c \in DOMAIN calls :
              calls[c].caller = t => calls[c].op # "storeAudioChunk"
        /\ ~recorders[tasks[t].rec].live
        /\ ~recorders[tasks[t].rec].port

C6_Witness ==
    \E t \in StopsIn({"concatExec"}) :
        /\ Len(tasks[t].buffers) = 2
        /\ ~recorders[tasks[t].rec].live

\* C7: every stopRecording run that returned has called onRecordingStopped
\* once; each call got, as blob and URL, the concatenation of all the chunks
\* the run read, audioBlob and audioUrl were set to it, and the call came
\* after the deleteSession of the session the chunks were read from had
\* committed.
C7_StopPublishesAndDeletes ==
    /\ Len(stoppedCalls) = Cardinality(StopsIn({"done"}))
    /\ \A k \in 1..Len(stoppedCalls) :
          LET e == stoppedCalls[k]
          IN /\ e.buffers # <<>>
             /\ e.audioBlob = Mp3(ConcatData(e.buffers))
             /\ e.audioUrl = e.audioBlob
             /\ e.deleteSession.op = "deleteSession"
             /\ e.deleteSession.pc = "ok"
             /\ e.deleteSession.sessionId = e.session

C7_Witness ==
    /\ Len(stoppedCalls) = 1
    /\ Len(stoppedCalls[1].buffers) = 2
    /\ stoppedCalls[1].audioBlob.data = <<1, 2, 3>>
    /\ audioBlob = stoppedCalls[1].audioBlob
    /\ StopsIn({"done"}) # {}

\* The stopRecording runs that threw out of concatMp3.
ConcatFailed ==
    {t \in StopsIn({"failed"}) :
        tasks[t].error \in {"concatMp3", "No MP3 blobs provided"}}

\* No output was produced and the session the run read is still stored with
\* every chunk the run read.
NothingProducedSessionKept(t) ==
    /\ audioBlob = NoBlob /\ audioUrl = NoBlob
    /\ stoppedCalls = <<>>
    /\ tasks[t].session \in DOMAIN audioSessions
    /\ LET stored == GetSessionChunks(audioChunks, tasks[t].session)
       IN \A i \in 1..Len(tasks[t].buffers) :
             \E j \in 1..Len(stored) : stored[j] = tasks[t].buffers[i]

\* C8, as stated: after concatMp3 failed in stopRecording there is no
\* audioBlob and no audioUrl, the session and its chunks are still stored,
\* and getAllSessions returns the session.
C8_ConcatFailureKeepsSessionListed ==
    \A t \in ConcatFailed :
        /\ NothingProducedSessionKept(t)
        /\ tasks[t].session \in GetAllSessions(audioSessions)

\* C8, amended: after concatMp3 failed in stopRecording there is no
\* audioBlob and no audioUrl, the session and its chunks are still stored,
\* and getAllSessions returns the session when the run had read at least
\* one chunk of it.
C8_ConcatFailureKeepsSession ==
    \A t \in ConcatFailed :
        /\ NothingProducedSessionKept(t)
        /\ tasks[t].buffers # <<>> =>
              tasks[t].session \in GetAllSessions(audioSessions)

C8_Witness ==
    \E t \in ConcatFailed :
        /\ tasks[t].error = "concatMp3"
        /\ Len(tasks[t].buffers) = 2
        /\ Len(GetSessionChunks(audioChunks, tasks[t].session)) = 2
        /\ tasks[t].session \in GetAllSessions(audioSessions)

\* C9: after a stopRecording run has thrown, isRecording is false, no
\* recorder is referenced, the recording-time interval is cleared and the
\* recorder the run worked with is released.
C9_FailedStopIsIdle ==
    \A t \in StopsIn({"failed"}) :
        /\ ~isRecording
        /\ pcmRecorder = 0
        /\ ~recordingInterval
        /\ \A r \in DOMAIN recorders : ~recorders[r].live /\ ~recorders[r].port

\* C10: every step in which abortRecording returns to its caller leaves no
\* recorder referenced, the recording-time interval cleared and every
\* recorder stopped.
C10_AbortReleases ==
    [][\A t \in DOMAIN tasks :
          (tasks[t].pc = "abortRecording" /\ tasks'[t].pc # "abortRecording")
          => /\ pcmRecorder' = 0
             /\ ~recordingInterval'
             /\ ~isRecording'
             /\ \A r \in DOMAIN recorders' :
                   ~recorders'[r].live /\ ~recorders'[r].port]_vars

\* An abortRecording call has returned: the one of onUnmounted, of a
\* stopRecording run that went on to read the session, or of the catch
\* block of startRecording.
AbortReturned ==
    \E u \in DOMAIN tasks :
        \/ At(u, {"abortRecording"}, {"done"})
        \/ u \in Retrieving
        \/ At(u, {"stopRecording"}, {"done"})
        \/ At(u, {"startRecording"}, {"done"}) /\ error = "handleMicrophoneError"

\* What abortRecording works on.
abortVars == <<pcmRecorder, isRecording, recordingInterval, recorders, storeVars>>

ListedIds(rows) == {rows[i].id : i \in 1..Len(rows)}

\* C12: in every reachable state of the store the sessions getAllSessions
\* selects are exactly the stored sessions that have a chunk row, and a
\* getAllSessions call returns exactly these, each as it is stored.
C12_ListsSessionsWithChunks ==
    /\ GetAllSessions(audioSessions) =
          {k \in DOMAIN audioSessions : ChunkKeysOf(audioChunks, k) # {}}
    /\ \A c \in DOMAIN calls :
          (calls[c].op = "getAllSessions" /\ calls[c].pc = "ok")
          => /\ ListedIds(calls[c].result) = GetAllSessions(audioSessions)
             /\ \A i \in 1..Len(calls[c].result) :
                   calls[c].result[i] = audioSessions[calls[c].result[i].id]

C12_Witness ==
    \E c \in DOMAIN calls :
        /\ calls[c].op = "getAllSessions" /\ calls[c].pc = "ok"
        /\ Len(calls[c].result) = 1
        /\ Cardinality(DOMAIN audioSessions) = 2

\* The useAudioSessions instances whose list is published.
Ready == {t \in DOMAIN tasks : At(t, {"onMounted"}, {"ready"})}

\* C13: once the page that killed a recording is loaded again and the list
\* of abandoned recordings is published, every stored session with n >= 1
\* stored chunks is in the list with chunkCount n.
C13_AbandonedListedWithAllChunks ==
    \A t \in Ready : \A k \in DOMAIN audioSessions :
        LET n == Cardinality(ChunkKeysOf(audioChunks, k))
        IN n >= 1 => \E i \in 1..Len(tasks[t].buffers) :
                        /\ tasks[t].buffers[i].id = k
                        /\ tasks[t].buffers[i].chunkCount = n

\* The frames held by the chunks of a session, and by a list of buffers.
FramesOfSession(sessionId) ==
    UNION {{audioChunks[k].floats.data[i] : i \in DOMAIN audioChunks[k].floats.data} :
           k \in ChunkKeysOf(audioChunks, sessionId)}
FramesOfBuffers(buffers) ==
    {ConcatData(buffers)[i] : i \in DOMAIN ConcatData(buffers)}
AllFrames == 1..(FlushIntervals * StoreToDbInterval)

\* C14: for start, FlushIntervals (3) elapsed flush intervals, then stop, with
\* every flush stored, the session holds exactly FlushIntervals chunks when
\* the retrieval of the chunks for the concatenation begins, the blob handed
\* to onRecordingStopped is built from all of them, and the session is
\* deleted afterwards.
C14_ThreeIntervalsThreeChunks ==
    /\ \A t \in StopsIn({"getSessionChunks"}) :
          FramesOfSession(tasks[t].session) = AllFrames =>
              Cardinality(ChunkKeysOf(audioChunks, tasks[t].session)) = FlushIntervals
    /\ \A i \in DOMAIN stoppedCalls :
          FramesOfBuffers(stoppedCalls[i].buffers) = AllFrames =>
              /\ Len(stoppedCalls[i].buffers) = FlushIntervals
              /\ stoppedCalls[i].audioBlob = Mp3(ConcatData(stoppedCalls[i].buffers))
              /\ stoppedCalls[i].session \notin DOMAIN audioSessions
\* The settled storeAudioChunk calls of the client whose session id named no
\* session when they were issued.
StoresToNoSession ==
    {c \in StoreCallsIn({"ok", "err"}) :
        calls[c].caller = 0 /\ calls[c].sessionId \notin DOMAIN calls[c].pre[1]}

\* C15: storeAudioChunk called with an id for which no session exists fails
\* with SessionNotFound, inserts no chunk and leaves every session row
\* (chunkCount, totalSize, chunkIds) as it was.
C15_NoSessionNoChunk ==
    \A c \in StoresToNoSession :
        /\ calls[c].pc = "err"
        /\ calls[c].error = "SessionNotFound"
        /\ audioChunks = calls[c].pre[2]
        /\ audioSessions = calls[c].pre[1]

C15_Witness ==
    \E c \in StoresToNoSession :
        /\ calls[c].pc = "err"
        /\ \E k \in DOMAIN audioSessions : audioSessions[k].chunkCount = 1
\* The deleteSession calls of the client.
ClientDeletes == {c \in DOMAIN calls : calls[c].op = "deleteSession" /\ calls[c].caller = 0}

\* The tables after the cascade delete of sessionId from the tables `pre`.
AfterDelete(pre, sessionId) ==
    <<Remove(pre[1], {sessionId}), Remove(pre[2], ChunkKeysOf(pre[2], sessionId))>>

\* C16: deleteSession fails with SessionNotFound when the session is absent;
\* otherwise the session row and every chunk of the session go in one
\* transaction (the tables are those before the call until they are those
\* after the cascade, and stay those before the call when it fails), and in
\* every reachable state each stored chunk names an existing session.
C16_CascadeDelete ==
    /\ \A k \in DOMAIN audioChunks : audioChunks[k].sessionId \in DOMAIN audioSessions
    /\ \A c \in ClientDeletes :
          LET pre == calls[c].pre
              sid == calls[c].sessionId
          IN /\ (calls[c].pc \in {"ok", "err"} /\ sid \notin DOMAIN pre[1]) =>
                    calls[c].pc = "err" /\ calls[c].error = "SessionNotFound"
             /\ (calls[c].pc \in {"ok", "err"} /\ sid \in DOMAIN pre[1]) =>
                    calls[c].error # "SessionNotFound"
             /\ IF calls[c].pc = "ok"
                THEN <<audioSessions, audioChunks>> = AfterDelete(pre, sid)
                ELSE <<audioSessions, audioChunks>> = pre

C16_Witness ==
    \E c \in ClientDeletes :
        /\ calls[c].pc = "ok"
        /\ ChunkKeysOf(calls[c].pre[2], calls[c].sessionId) # {}
        /\ audioChunks = <<>>
\* The settled calls of the client of the given method.
ClientSettled(op, pcs) ==
    {c \in DOMAIN calls : calls[c].op = op /\ calls[c].caller = 0 /\ calls[c].pc \in pcs}

\* The tables `pre` without the sessions D and their chunks.
Without(pre, D) ==
    <<Remove(pre[1], D),
      Remove(pre[2], {k \in DOMAIN pre[2] : pre[2][k].sessionId \in D})>>

\* The sessions of `sessions` that have chunks and fewer than k sessions
\* with chunks created after them (ids of the stored sessions start with
\* the time of their creation).
MostRecent(sessions, k) ==
    {x \in GetAllSessions(sessions) :
        Cardinality({y \in GetAllSessions(sessions) : y[1] > x[1]}) < k}

\* C17: with sessions of distinct createdAt, clearSessionOverThreshold(k)
\* retains exactly the k most recently created sessions that have chunks and
\* deletes every older session that has chunks, with its chunks; when at
\* most k sessions have chunks it deletes nothing.
C17_KeepsMostRecent ==
    \A c \in ClientSettled("clearSessionOverThreshold", {"ok"}) :
        LET pre == calls[c].pre
            R == GetAllSessions(pre[1])
        IN /\ <<audioSessions, audioChunks>> = Without(pre, R \ MostRecent(pre[1], pre[4]))
           /\ Cardinality(R) <= pre[4] => <<audioSessions, audioChunks>> = <<pre[1], pre[2]>>
           /\ Cardinality(R) >= pre[4] => Cardinality(GetAllSessions(audioSessions)) = pre[4]

C17_Witness ==
    \E c \in ClientSettled("clearSessionOverThreshold", {"ok"}) :
        /\ calls[c].pre[4] = 1
        /\ Cardinality(GetAllSessions(calls[c].pre[1])) = 3
        /\ Cardinality(DOMAIN audioSessions) = 1

\* C18: clearSessionsOlderThan(days) deletes exactly the sessions created
\* before the cutoff (the time of the call minus days), each with its
\* chunks, and no session created at the cutoff or after it.
C18_DeletesOlderThanCutoff ==
    \A c \in ClientSettled("clearSessionsOlderThan", {"ok"}) :
        LET pre == calls[c].pre
        IN <<audioSessions, audioChunks>> =
               Without(pre, {x \in DOMAIN pre[1] : x[1] < pre[3] - pre[4]})

C18_Witness ==
    \E c \in ClientSettled("clearSessionsOlderThan", {"ok"}) :
        /\ <<-1, 0>> \in DOMAIN audioSessions
        /\ calls[c].pre[3] - calls[c].pre[4] = -1
        /\ Cardinality(DOMAIN calls[c].pre[1]) = 3
        /\ Cardinality(DOMAIN calls[c].pre[2]) >= 2
        /\ DOMAIN audioSessions = {<<-1, 0>>}

Mounting == {t \in DOMAIN tasks : tasks[t].fn = "onMounted"}

\* C19: on initialization useAudioSessions runs clearSessionsOlderThan, then
\* clearSessionOverThreshold, then getAllSessions, each only after the one
\* before has completed (one call of the hook is in flight at a time, the
\* one its position names, and a deleteSession only inside a clear method);
\* the list it publishes holds at most maxSessionsToKeep sessions, all
\* created within the retention window; and isReady is true only once the
\* list is the one getAllSessions returned.
C19_InitOrder ==
    \A t \in Mounting :
        LET own == {c \in DOMAIN calls : calls[c].caller = t}
            days == tasks[t].data.data[1]
            keep == tasks[t].data.data[2]
            list == tasks[t].buffers
        IN /\ Cardinality(own) <= 1
           /\ \A c \in own : calls[c].op = tasks[t].pc
           /\ \A d \in DOMAIN calls : calls[d].caller < 0 =>
                  /\ -calls[d].caller \in own
                  /\ calls[-calls[d].caller].pc = "deleteSession"
                  /\ calls[d].op = "deleteSession"
           /\ tasks[t].pc # "ready" => list = <<>>
           /\ tasks[t].pc = "ready" =>
                  /\ list = RowsByChunkCount(audioSessions, GetAllSessions(audioSessions))
                  /\ Len(list) <= keep
                  /\ \A i \in 1..Len(list) : list[i].id[1] >= now - days

C19_Witness ==
    \E t \in Mounting :
        /\ tasks[t].pc = "ready"
        /\ Len(tasks[t].buffers) = 1
        /\ tasks[t].data.data = <<1, 1>>
        /\ Cardinality(DOMAIN audioSessions) < 3
        /\ issued = 0
\* What startRecording must leave alone when no microphone is found: the
\* recorder and its stream, the session, the store, the accumulator, the
\* result of an earlier recording, the recording flags and the timer.
idleVars == <<pcmRecorder, recorders, currentSession, storeVars, calls, pcmArrays,
              totalSamples, audioBlob, audioUrl, isRecording, isProcessing,
              recordingInterval, fs>>

\* C20: when checkMicrophoneAvailability reports no microphone, startRecording
\* sets the error message and returns without side effects: what it must
\* leave alone and the other activations are as before; and when it is the
\* only startRecording so far the orchestrator is idle, no audio stream is
\* acquired, no session is created, isRecording is false and no timer runs.
C20_NoMicrophoneNoSideEffects ==
    [][\A t \in DOMAIN tasks :
          (At(t, {"startRecording"}, {"checkMicrophoneAvailability"})
             /\ tasks'[t].pc = "done") =>
              /\ error' = "Microphone not available"
              /\ UNCHANGED idleVars
              /\ \A u \in DOMAIN tasks \ {t} : tasks'[u] = tasks[u]
              /\ starts = 1 =>
                    /\ ~isRecording' /\ ~isProcessing' /\ ~recordingInterval'
                    /\ pcmRecorder' = 0 /\ recorders' = <<>>
                    /\ currentSession' = NoId /\ audioSessions' = <<>>]_vars

C20_Witness ==
    /\ error = "Microphone not available"
    /\ \E t \in DOMAIN tasks : At(t, {"startRecording"}, {"done"})
    /\ ~isRecording /\ ~recordingInterval
    /\ recorders = <<>> /\ audioSessions = <<>>
\* C21: when the acquisition of the stream fails in startRecording (the
\* await of startPcmRecorder throws), the error is set, no recorder is made
\* and the store is not touched; and when it is the only startRecording so
\* far, recording has not started and nothing is left behind: the call has
\* returned, isRecording is false, no recorder and no timer is held, and the
\* store holds no session.
C21_FailedAcquisitionLeavesNothing ==
    [][\A t \in DOMAIN tasks :
          (At(t, {"startRecording"}, {"startPcmRecorder"})
             /\ tasks'[t].pc \notin {"startPcmRecorder", "createSession"}) =>
              /\ error' = "handleMicrophoneError"
              /\ Len(recorders') = Len(recorders)
              /\ UNCHANGED <<storeVars, pcmRecorder, currentSession>>
              /\ \A c \in DOMAIN calls' :
                    calls'[c].caller = t => calls'[c].op # "createSession"
              /\ starts = 1 =>
                    /\ tasks'[t].pc = "done"
                    /\ ~isRecording' /\ ~isProcessing' /\ ~recordingInterval'
                    /\ pcmRecorder' = 0 /\ recorders' = <<>>
                    /\ currentSession' = NoId /\ audioSessions' = <<>>
                    /\ calls' = <<>>]_vars

C21_Witness ==
    /\ error = "handleMicrophoneError"
    /\ faults = 1
    /\ \E t \in DOMAIN tasks : At(t, {"startRecording"}, {"done"})
    /\ recorders = <<>> /\ audioSessions = <<>> /\ calls = <<>>
\* The messages opt.onError has been called with.  useAudioRecording keeps
\* the option and calls it nowhere: not in the catch of startRecording, not
\* in stopRecording, not in appendMp3.
OnErrorMessages == {}

\* The stopRecording runs that have thrown to their caller.
FailedStops == StopsIn({"failed"})

\* C22: every capability error at start (the message is in the error ref)
\* and every fatal error during stop (stopRecording has thrown it) has been
\* put into the error ref and given to the onError callback.
C22_ErrorsReachRefAndCallback ==
    /\ error # "" => error \in OnErrorMessages
    /\ \A t \in FailedStops :
          /\ error = tasks[t].error
          /\ tasks[t].error \in OnErrorMessages
\* The runs of the listener's flush that failed: pcmToMp3 threw, or
\* storeAudioChunk rejected and the rejection was logged.
FailedFlushes ==
    {t \in DOMAIN tasks :
        /\ tasks[t].fn = "onPCMData"
        /\ \/ tasks[t].pc = "failed"
           \/ tasks[t].pc = "done" /\ tasks[t].error # ""}

\* The frames of the i-th flush interval.
IntervalFrames(i) == ((i - 1) * StoreToDbInterval + 1)..(i * StoreToDbInterval)

\* What a failing flush must leave alone.
flushVars == <<isRecording, isProcessing, error, pcmRecorder, recorders,
               recordingInterval, currentSession, audioSessions, audioChunks>>

\* C23: a failure of a periodic flush (encode or store) does not change the
\* orchestrator's state: the step in which it fails leaves the recording
\* state, the session and the stored chunks alone, isRecording is still
\* true afterwards, no stored chunk is ever changed or removed, the session
\* row counts the chunks stored, and every flush interval whose own flush
\* did not fail is stored (the flushes after a failed one still run and
\* only the audio of the failed ones is lost).  Flushes run one at a time.
C23_FlushFailureIsAbsorbed ==
    /\ [](/\ \A t \in FailedFlushes :
               isRecording /\ pcmRecorder # 0 /\ recordingInterval /\ error = ""
          /\ (Quiet /\ currentSession # NoId) =>
               /\ currentSession \in DOMAIN audioSessions
               /\ audioSessions[currentSession].chunkCount =
                      Cardinality(ChunkKeysOf(audioChunks, currentSession))
               /\ \A i \in 1..(captured \div StoreToDbInterval) :
                      \/ IntervalFrames(i) \subseteq FramesOfSession(currentSession)
                      \/ (i + 1) \in FailedFlushes)
    /\ [][/\ \A k \in DOMAIN audioChunks :
               k \in DOMAIN audioChunks' /\ audioChunks'[k] = audioChunks[k]
          /\ (\/ FailedFlushes' # FailedFlushes
              \/ \E c \in DOMAIN calls : /\ c \in DOMAIN calls'
                                         /\ calls[c].pc # "err"
                                         /\ calls'[c].pc = "err")
                => UNCHANGED flushVars]_vars

C23_Witness ==
    /\ Quiet
    /\ captured = FlushIntervals * StoreToDbInterval
    /\ FailedFlushes = {2}
    /\ currentSession # NoId
    /\ FramesOfSession(currentSession) =
           (StoreToDbInterval + 1)..(FlushIntervals * StoreToDbInterval)
\* The flushes of the listener that found no session: storeAudioChunk
\* rejected with SessionNotFound and appendMp3 has returned.
FlushesWithoutSession ==
    {t \in DOMAIN tasks :
        At(t, {"onPCMData"}, {"done"}) /\ tasks[t].error = "SessionNotFound"}

\* C24: when a flush has found that the session of the recording no longer
\* exists, the error is surfaced (the error ref holds a message) and the
\* recording is aborted: isRecording is false and the recorder is released.
C24_LostSessionAborts ==
    \A t \in FlushesWithoutSession :
        /\ error # ""
        /\ ~isRecording
        /\ pcmRecorder = 0
        /\ \A r \in DOMAIN recorders : ~recorders[r].live /\ ~recorders[r].port
\* The flushes in flight: runs of appendMp3 that have not returned.
\* ------------------------------------------------- overlapping starts
\* The start button pressed again before the first startRecording has set
\* isRecording: up to MaxRestarts activations of startRecording overlap, the
\* microphone may refuse one of them, and the user stops the recording.  No
\* frame arrives and nothing else fails.
DoubleStartNext ==
    \/ starts < MaxRestarts /\ BeginStart
    \/ StopRecording
    \/ \E t \in DOMAIN tasks : StartMicrophoneChecked(t, TRUE)
    \/ \E t \in DOMAIN tasks, throws \in BOOLEAN, id \in GenerateId :
          StartPcmRecorderReturn(t, throws, id)
    \/ \E t \in DOMAIN tasks, c \in DOMAIN calls : StartCreateSessionReturn(t, c)
    \/ \E t \in DOMAIN tasks, c \in DOMAIN calls : StartDeleteSessionReturn(t, c)
    \/ \E t \in DOMAIN tasks : FfmpegLoad(t)
    \/ \E t \in DOMAIN tasks : PcmWrite(t)
    \/ \E t \in DOMAIN tasks : PcmExec(t, FALSE, FALSE)
    \/ \E t \in DOMAIN tasks : PcmRead(t)
    \/ \E t \in DOMAIN tasks : PcmDeleteInput(t)
    \/ \E t \in DOMAIN tasks : PcmDeleteOutput(t)
    \/ \E t \in DOMAIN tasks, id \in GenerateId : BlobArrayBuffer(t, id)
    \/ \E t \in DOMAIN tasks, c \in DOMAIN calls : StopAppendMp3Return(t, c)
    \/ \E t \in DOMAIN tasks : AbortRecordingReturn(t, FALSE)
    \/ \E t \in DOMAIN tasks, c \in DOMAIN calls : StopGetSessionReturn(t, c)
    \/ \E t \in DOMAIN tasks, c \in DOMAIN calls : StopGetSessionChunksReturn(t, c)
    \/ \E t \in DOMAIN tasks, c \in DOMAIN calls : StopDeleteSessionReturn(t, c)
    \/ \E c \in DOMAIN calls : CreateSessionAdd(c)
    \/ \E c \in DOMAIN calls : StoreGet(c)
    \/ \E c \in DOMAIN calls : StoreTxAdd(c, FALSE)
    \/ \E c \in DOMAIN calls : StoreTxPut(c, FALSE)
    \/ \E c \in DOMAIN calls : StoreTxCommit(c)
    \/ \E c \in DOMAIN calls : GetSessionChunksQuery(c)
    \/ \E c \in DOMAIN calls : GetSessionGet(c)
    \/ \E c \in DOMAIN calls : DeleteGet(c)
    \/ \E c \in DOMAIN calls : DeleteTxChunks(c, FALSE)
    \/ \E c \in DOMAIN calls : DeleteTxSession(c, FALSE)
    \/ \E c \in DOMAIN calls : DeleteTxCommit(c)

DoubleStartSpec == Init /\ [][DoubleStartNext]_vars

FlushesInFlight ==
    {t \in DOMAIN tasks :
        /\ tasks[t].fn \in {"onPCMData", "stopRecording"}
        /\ tasks[t].pc \in {"load", "write", "exec", "read", "del1", "del2",
                            "arrayBuffer", "store"}}

\* abortRecording has called stop() on recorder r.
Stopped(r) == ~recorders[r].port \/ ~recorders[r].live

\* C25: once abortRecording (or the unmount hook) has been invoked, a flush
\* in flight is left to run (the step that stops the recorder leaves every
\* flush in flight and its store call as they are, but for the final flush
\* of the stopRecording that invokes the abort, which has settled), and no
\* new flush is started afterwards: every flush that starts belongs to a
\* recorder that has not been stopped.
C25_NoFlushAfterAbort ==
    [][/\ \A n \in DOMAIN tasks' \ DOMAIN tasks :
             tasks'[n].pc = "load" =>
                 /\ tasks'[n].rec \in DOMAIN recorders
                 /\ ~Stopped(tasks'[n].rec)
       /\ (\E r \in DOMAIN recorders : ~Stopped(r) /\ ~recorders'[r].port) =>
             \A t \in FlushesInFlight :
                 \/ /\ tasks'[t] = tasks[t]
                    /\ \A c \in DOMAIN calls :
                          calls[c].caller = t => c \in DOMAIN calls' /\ calls'[c] = calls[c]
                 \/ /\ tasks[t].fn = "stopRecording"
                    /\ tasks'[t].pc = "abortRecording"
                    /\ \E c \in DOMAIN calls : Settled(t, c)]_vars

\* C26: abortRecording releases the audio resources of a recorder (port
\* closed, tracks stopped) only when no flush of that recorder is in flight:
\* a step that stops a recorder finds every flush started from its data
\* settled.
C26_ReleaseAfterFlushSettled ==
    [][\A r \in DOMAIN recorders :
          (~Stopped(r) /\ (~recorders'[r].port \/ ~recorders'[r].live)) =>
              \A t \in FlushesInFlight : tasks[t].rec # r]_vars

\* C27: pcmToMp3 and concatMp3 (with more than one chunk) always go through
\* their cleanup.  From the try block the only way on is the finally block,
\* whether the engine ran or threw; there every temporary name is deleted in
\* turn (input.pcm then output.mp3; the inputs and files.txt then
\* output.mp3), also when a name is already gone and its deleteFile rejects;
\* and the call ends with what the try block produced: the blob that was
\* read, or the engine's error.
C27_CleanupAlwaysAttempted ==
    [][\A t \in DOMAIN tasks :
          /\ tasks[t].pc \in {"write", "exec", "read"} =>
                 tasks'[t].pc \in {"write", "exec", "read", "del1"}
          /\ (tasks[t].pc = "del1" /\ tasks'[t] # tasks[t]) =>
                 /\ tasks'[t] = [tasks[t] EXCEPT !.pc = "del2"]
                 /\ fs'["input.pcm"] = NoFile
          /\ (tasks[t].pc = "del2" /\ tasks'[t] # tasks[t]) =>
                 /\ fs'["output.mp3"] = NoFile
                 /\ IF tasks[t].threw
                    THEN tasks'[t].pc = "failed" /\ tasks'[t].error = "pcmToMp3"
                    ELSE tasks'[t].pc = "arrayBuffer" /\ tasks'[t].mp3 = tasks[t].mp3
          /\ tasks[t].pc \in {"concatWrite", "concatList", "concatExec", "concatRead"} =>
                 tasks'[t].pc \in {"concatWrite", "concatList", "concatExec",
                                   "concatRead", "concatClean"}
          /\ (tasks[t].pc = "concatClean" /\ tasks'[t] # tasks[t]) =>
                 /\ tasks'[t] = [tasks[t] EXCEPT !.pc = "concatDelete"]
                 /\ fs'["input{i}.mp3"] = NoFile /\ fs'["files.txt"] = NoFile
          /\ (tasks[t].pc = "concatDelete" /\ tasks'[t] # tasks[t]) =>
                 /\ fs'["output.mp3"] = NoFile
                 /\ IF tasks[t].threw
                    THEN tasks'[t].pc = "failed" /\ tasks'[t].error = "concatMp3"
                    ELSE tasks'[t].pc = "deleteSession" /\ audioBlob' = tasks[t].mp3]_vars

\* The engine threw in pcmToMp3; the cleanup ran over a missing output.mp3
\* and the engine's error reached the caller.
C27_Witness ==
    /\ faults = 1
    /\ \E t \in DOMAIN tasks : tasks[t].pc = "failed" /\ tasks[t].error = "pcmToMp3"
    /\ \A f \in FileNames : fs[f] = NoFile

\* An activation that has called ffmpeg.load() and is in pcmToMp3 or behind
\* it, or in concatMp3.
LoadTriggered ==
    \E t \in DOMAIN tasks :
        /\ tasks[t].fn \in {"onPCMData", "stopRecording"}
        /\ tasks[t].pc \in {"load", "write", "exec", "read", "del1", "del2",
                            "arrayBuffer", "store", "abortRecording", "getSession",
                            "getSessionChunks", "concatLoad", "concatWrite",
                            "concatList", "concatExec", "concatRead", "concatClean",
                            "concatDelete", "deleteSession"}

\* The step calls ffmpeg.load(): an activation enters pcmToMp3 or the
\* multi-chunk path of concatMp3.
TriggersLoad ==
    \E t \in DOMAIN tasks' :
        /\ tasks'[t].pc \in {"load", "concatLoad"}
        /\ t \in DOMAIN tasks => tasks[t].pc # tasks'[t].pc

\* C28: the engine is initialised at most once: ffmpeg.load() is called by
\* the first encode or concatenate call only, and no call made after it
\* calls ffmpeg.load() again.
C28_EngineLoadedOnce ==
    [][TriggersLoad => ~LoadTriggered]_vars

\* C29: concatMp3 called with exactly one chunk returns a blob with the
\* content of that chunk (stopRecording publishes it), and it does so
\* without calling ffmpeg.load(), without touching a file of the engine and
\* without entering the multi-chunk path.
C29_SingleChunkShortcut ==
    [][\A t \in DOMAIN tasks, c \in DOMAIN calls :
          (/\ At(t, {"stopRecording"}, {"getSessionChunks"})
           /\ Settled(t, c)
           /\ calls[c].op = "getSessionChunks"
           /\ Len(calls[c].result) = 1
           /\ tasks'[t] # tasks[t]) =>
              /\ audioBlob' = calls[c].result[1]
              /\ audioUrl' = calls[c].result[1]
              /\ tasks'[t].pc = "deleteSession"
              /\ fs' = fs
              /\ ~TriggersLoad]_vars

\* stopRecording has published the only chunk of a recording that captured
\* one frame.
C29_Witness ==
    \E t \in DOMAIN tasks :
        /\ At(t, {"stopRecording"}, {"deleteSession"})
        /\ tasks[t].buffers = <<audioBlob>>
        /\ audioBlob = Mp3(<<1>>)
        /\ captured = 1

\* ------------------------------------------------ cycle after cycle
\* Up to MaxRestarts recordings one after the other: the start button is
\* pressed when nothing is in flight, frames arrive while no flush is in
\* progress, the recording is stopped between two frames, and nothing fails.
\* Acquiring the microphone takes more than a millisecond, so the clock has
\* advanced when createSession makes the id of the session.
\* The random part of a chunk id does not repeat within a millisecond.
RestartNext ==
    \/ Quiet /\ starts < MaxRestarts /\ BeginStart
    \/ Quiet /\ stops < MaxRestarts /\ BeginStop
    \/ \E r \in DOMAIN recorders : Quiet /\ OnMessage(r)
    \/ \E t \in DOMAIN tasks : StartMicrophoneChecked(t, TRUE)
    \/ \E t \in DOMAIN tasks, id \in GenerateId :
          id[1] > now /\ StartPcmRecorderReturn(t, FALSE, id)
    \/ \E t \in DOMAIN tasks, c \in DOMAIN calls : StartCreateSessionReturn(t, c)
    \/ \E t \in DOMAIN tasks : FfmpegLoad(t)
    \/ \E t \in DOMAIN tasks : PcmWrite(t)
    \/ \E t \in DOMAIN tasks, overwrites \in BOOLEAN : PcmExec(t, FALSE, overwrites)
    \/ \E t \in DOMAIN tasks : PcmRead(t)
    \/ \E t \in DOMAIN tasks : PcmDeleteInput(t)
    \/ \E t \in DOMAIN tasks : PcmDeleteOutput(t)
    \/ \E t \in DOMAIN tasks, id \in GenerateId :
          id \notin DOMAIN audioChunks /\ BlobArrayBuffer(t, id)
    \/ \E t \in DOMAIN tasks, c \in DOMAIN calls : ListenerReturn(t, c)
    \/ \E t \in DOMAIN tasks, c \in DOMAIN calls : StopAppendMp3Return(t, c)
    \/ \E t \in DOMAIN tasks : AbortRecordingReturn(t, FALSE)
    \/ \E t \in DOMAIN tasks, c \in DOMAIN calls : StopGetSessionReturn(t, c)
    \/ \E t \in DOMAIN tasks, c \in DOMAIN calls : StopGetSessionChunksReturn(t, c)
    \/ \E t \in DOMAIN tasks : ConcatWriteInputs(t)
    \/ \E t \in DOMAIN tasks : ConcatWriteList(t)
    \/ \E t \in DOMAIN tasks, overwrites \in BOOLEAN : ConcatExec(t, FALSE, overwrites)
    \/ \E t \in DOMAIN tasks : ConcatRead(t)
    \/ \E t \in DOMAIN tasks : ConcatDeleteInputs(t)
    \/ \E t \in DOMAIN tasks : ConcatDeleteOutput(t)
    \/ \E t \in DOMAIN tasks, c \in DOMAIN calls : StopDeleteSessionReturn(t, c)
    \/ \E c \in DOMAIN calls : CreateSessionAdd(c)
    \/ \E c \in DOMAIN calls : StoreGet(c)
    \/ \E c \in DOMAIN calls : StoreTxAdd(c, FALSE)
    \/ \E c \in DOMAIN calls : StoreTxPut(c, FALSE)
    \/ \E c \in DOMAIN calls : StoreTxCommit(c)
    \/ \E c \in DOMAIN calls : GetSessionChunksQuery(c)
    \/ \E c \in DOMAIN calls : GetSessionGet(c)
    \/ \E c \in DOMAIN calls : DeleteGet(c)
    \/ \E c \in DOMAIN calls : DeleteTxChunks(c, FALSE)
    \/ \E c \in DOMAIN calls : DeleteTxSession(c, FALSE)
    \/ \E c \in DOMAIN calls : DeleteTxCommit(c)

RestartSpec == CycleInit /\ [][RestartNext]_vars

\* The audio handed to onRecordingStopped, cycle after cycle.
RECURSIVE Delivered(_)
Delivered(stopped) ==
    IF stopped = <<>> THEN <<>>
    ELSE Head(stopped).audioBlob.data \o Delivered(Tail(stopped))

\* The frames in the audio of the i-th completed cycle.
FramesOfCycle(i) ==
    {stoppedCalls[i].audioBlob.data[k] : k \in DOMAIN stoppedCalls[i].audioBlob.data}

\* The sessions of the cycles that have completed.
PastSessions == {stoppedCalls[i].session : i \in DOMAIN stoppedCalls}

\* C30: recordings made one after the other, each started after the one
\* before has completed, all go the same way.  Whenever as many cycles have
\* been stopped as were started and nothing is in flight, the recorder is
\* Idle: isRecording, isProcessing and the timer are off, no recorder is
\* held or live, no error is set, the store is empty again, and each cycle
\* has handed its own frames to onRecordingStopped (together all frames
\* captured so far, those of an earlier cycle before those of a later one;
\* the order of the chunks within a cycle is not part of this claim).  Each cycle uses a session of its own: while
\* recording, currentSession is a session of the store that no earlier cycle
\* used, and the sessions of the completed cycles are pairwise distinct.
C30_CyclesRepeat ==
    /\ Len(stoppedCalls) <= stops /\ stops <= starts
    /\ (Quiet /\ stops = starts) =>
          /\ ~isRecording /\ ~isProcessing /\ ~recordingInterval
          /\ pcmRecorder = 0 /\ error = ""
          /\ \A r \in DOMAIN recorders : Stopped(r) /\ ~recorders[r].live
          /\ Len(stoppedCalls) = stops
          /\ audioSessions = <<>> /\ audioChunks = <<>>
          /\ Len(Delivered(stoppedCalls)) = captured
          /\ \A i \in DOMAIN stoppedCalls : FramesOfCycle(i) \subseteq 1..captured
          /\ \A i, j \in DOMAIN stoppedCalls :
                i < j => \A x \in FramesOfCycle(i), y \in FramesOfCycle(j) : x < y
    /\ isRecording =>
          /\ currentSession \in DOMAIN audioSessions
          /\ currentSession \notin PastSessions
    /\ \A i, j \in DOMAIN stoppedCalls :
          i # j => stoppedCalls[i].session # stoppedCalls[j].session

\* Two cycles have completed: the first recorded frames 1 and 2, the second
\* frame 3.
C30_Witness ==
    /\ Quiet /\ starts = 2 /\ stops = 2 /\ Len(stoppedCalls) = 2
    /\ stoppedCalls[1].audioBlob.data = <<1, 2>>
    /\ stoppedCalls[2].audioBlob.data = <<3>>

\* ------------------------------------------------------ recording time
\* The readings of the clock in TimeSpec, in milliseconds: around the
\* changes of the seconds, of the minutes and of their number of digits.
ClockSamples ==
    {m * 60000 + sec * 1000 + ms : m \in {0, 1, 9, 10, 59, 60, 99, MaxMinutes},
                                   sec \in {0, 1, 9, 10, 59},
                                   ms \in {0, 999}}

\* Time passes: the clock is read again later.
TimePasses(c) ==
    /\ c \in ClockSamples /\ c > now
    /\ now' = c
    /\ UNCHANGED <<storeVars, calls, issued, callNo, appVars, faults, timeVars>>

\* startTime() is called.
TimerStart ==
    /\ ~recordingInterval
    /\ StartTime
    /\ UNCHANGED <<storeVars, now, calls, issued, callNo, pcmRecorder, pcmArrays,
                   totalSamples, isRecording, isProcessing, error, audioBlob,
                   audioUrl, currentSession, envVars, tasks, faults>>

\* A timer callback that rounds to the nearest second.
TickRounds ==
    /\ recordingInterval
    /\ recordingTime' = (now - recordingStartTime + 500) \div 1000
    /\ UNCHANGED <<storeVars, now, calls, issued, callNo, appVars, faults,
                   recordingStartTime>>

\* The callback of setInterval: Math.floor((Date.now() - start) / 1000).
Tick ==
    /\ recordingInterval
    /\ recordingTime' = (now - recordingStartTime) \div 1000
    /\ UNCHANGED <<storeVars, now, calls, issued, callNo, appVars, faults,
                   recordingStartTime>>

\* stopTime(): the timer is cleared.
TimerStop ==
    /\ recordingInterval
    /\ recordingInterval' = FALSE
    /\ UNCHANGED <<storeVars, now, calls, issued, callNo, pcmRecorder, pcmArrays,
                   totalSamples, isRecording, isProcessing, error, audioBlob,
                   audioUrl, currentSession, envVars, tasks, faults, timeVars>>

TimeNext ==
    \/ \E c \in ClockSamples : TimePasses(c)
    \/ TimerStart
    \/ Tick
    \/ TimerStop

TimeSpec == Init /\ [][TimeNext]_vars

\* Strings are sequences of characters.
Digits == <<"0", "1", "2", "3", "4", "5", "6", "7", "8", "9">>

\* Number.prototype.toString() of an integer.
RECURSIVE NumberToString(_)
NumberToString(n) ==
    IF n < 0 THEN <<"-">> \o NumberToString(-n)
    ELSE IF n < 10 THEN <<Digits[n + 1]>>
    ELSE NumberToString(n \div 10) \o <<Digits[(n % 10) + 1]>>

\* String.prototype.padStart(targetLength, padString) with a pad of one
\* character.
RECURSIVE PadStart(_, _, _)
PadStart(str, targetLength, pad) ==
    IF Len(str) >= targetLength THEN str
    ELSE PadStart(<<pad>> \o str, targetLength, pad)

\* formattedRecordingTime of AudioRecorder.client.vue.
FormattedRecordingTime ==
    LET minutes == recordingTime \div 60
        seconds == recordingTime % 60
    IN PadStart(NumberToString(minutes), 2, "0") \o <<":">>
           \o PadStart(NumberToString(seconds), 2, "0")

IsDigit(ch) == \E d \in 1..10 : Digits[d] = ch

\* The number a string of digits denotes.
RECURSIVE ParseInt(_)
ParseInt(str) ==
    IF str = <<>> THEN 0
    ELSE ParseInt(SubSeq(str, 1, Len(str) - 1)) * 10
             + (CHOOSE d \in 0..9 : Digits[d + 1] = str[Len(str)])

\* The timer sets recordingTime to the whole seconds since the start.
TimerTruncates ==
    recordingTime' # recordingTime =>
        recordingTime' = (now' - recordingStartTime') \div 1000

ConcurrentCall ==
    /\ issued < MaxClients
    /\ issued' = issued + 1
    /\ \/ \E id \in GenerateId :
             /\ issued = 0
             /\ calls' = AddCall(NewCall("createSession", 0, NoId, NoFloats, id))
             /\ now' = id[1]
       \/ \E id \in GenerateId, sessionId \in DOMAIN audioSessions, floats \in Payloads :
             /\ calls' = AddCall(NewCall("storeAudioChunk", 0, sessionId, floats, id))
             /\ now' = id[1]
       \/ \E sessionId \in DOMAIN audioSessions :
             /\ calls' = AddCall(NewCall("deleteSession", 0, sessionId, NoFloats, NoId))
             /\ UNCHANGED now
    /\ UNCHANGED <<storeVars, callNo, appVars>>
    /\ UNCHANGED <<faults, timeVars>>

ConcurrentNext ==
    \/ ConcurrentCall
    \/ ClientReturn
    \/ \E c \in DOMAIN calls : CreateSessionAdd(c)
    \/ \E c \in DOMAIN calls : StoreGet(c)
    \/ \E c \in DOMAIN calls : StoreTxAdd(c, FALSE)
    \/ \E c \in DOMAIN calls : StoreTxPut(c, FALSE)
    \/ \E c \in DOMAIN calls : StoreTxCommit(c)
    \/ \E c \in DOMAIN calls : DeleteGet(c)
    \/ \E c \in DOMAIN calls : DeleteTxChunks(c, FALSE)
    \/ \E c \in DOMAIN calls : DeleteTxSession(c, FALSE)
    \/ \E c \in DOMAIN calls : DeleteTxCommit(c)

ConcurrentSpec == CycleInit /\ [][ConcurrentNext]_vars

\* C32: while a session exists, its chunkCount and totalSize never decrease
\* and its createdAt, sampleRate and numChannels never change, whatever
\* store calls run and however they interleave.
C32_CountersMonotonic ==
    [][\A k \in DOMAIN audioSessions \cap DOMAIN audioSessions' :
          /\ audioSessions'[k].chunkCount >= audioSessions[k].chunkCount
          /\ audioSessions'[k].totalSize >= audioSessions[k].totalSize
          /\ audioSessions'[k].createdAt = audioSessions[k].createdAt
          /\ audioSessions'[k].sampleRate = audioSessions[k].sampleRate
          /\ audioSessions'[k].numChannels = audioSessions[k].numChannels]_vars

\* C33: a createSession that returns has inserted exactly one session, with
\* chunkCount 0, totalSize 0 and no chunk ids, under an id no session had
\* before, and has left every other session and every chunk as it was.  When
\* the id it made is taken, it rejects and the store stays as it was.
C33_CreateSessionInsertsOne ==
    [][\A c \in DOMAIN calls \cap DOMAIN calls' :
          (calls[c].op = "createSession" /\ calls[c].pc = "start"
             /\ calls'[c].pc # "start") =>
              IF calls'[c].pc = "ok"
              THEN LET id == calls'[c].result
                   IN /\ id \notin DOMAIN audioSessions
                      /\ DOMAIN audioSessions' = DOMAIN audioSessions \cup {id}
                      /\ audioSessions'[id].id = id
                      /\ audioSessions'[id].chunkCount = 0
                      /\ audioSessions'[id].totalSize = 0
                      /\ audioSessions'[id].chunkIds = <<>>
                      /\ \A k \in DOMAIN audioSessions :
                            audioSessions'[k] = audioSessions[k]
                      /\ audioChunks' = audioChunks
              ELSE UNCHANGED <<audioSessions, audioChunks>>]_vars

\* A second session has been created next to one that holds a chunk.
C33_Witness ==
    /\ Cardinality(DOMAIN audioSessions) = 2
    /\ audioChunks # <<>>
    /\ \E c \in DOMAIN calls :
          /\ calls[c].op = "createSession" /\ calls[c].pc = "ok"
          /\ audioSessions[calls[c].result].chunkCount = 0

\* C34: concurrent storeAudioChunk calls on one session lose no update: once
\* every call has completed, chunkCount is the number of chunk rows of the
\* session, chunkIds names each of them and totalSize is the sum of their
\* sizes.
C34_NoLostUpdate ==
    (/\ tx = NoTx
     /\ \A c \in DOMAIN calls :
           calls[c].pc = "ok" /\ calls[c].op \in {"createSession", "storeAudioChunk"}
     /\ Cardinality(DOMAIN calls) = issued) =>
        \A sid \in DOMAIN audioSessions :
            LET keys == ChunkKeysOf(audioChunks, sid)
            IN /\ audioSessions[sid].chunkCount = Cardinality(keys)
               /\ {audioSessions[sid].chunkIds[i] :
                       i \in 1..Len(audioSessions[sid].chunkIds)} = keys
               /\ audioSessions[sid].totalSize = SumSizes(audioChunks, keys)

\* C35: once deleteSession(id) has completed, the store holds no session
\* with that id and no chunk of it, in that state and in every later one,
\* also when a storeAudioChunk for the id had read the session before the
\* deletion ran.
C35_DeletedStaysDeleted ==
    \A c \in DOMAIN calls :
        (calls[c].op = "deleteSession" /\ calls[c].pc = "ok") =>
            /\ calls[c].sessionId \notin DOMAIN audioSessions
            /\ ChunkKeysOf(audioChunks, calls[c].sessionId) = {}

\* ------------------------------------------- a start after a failed stop
\* The recorder after a recording made at time t whose stopRecording threw in
\* concatMp3: its three frames were flushed in two chunks, which are still in
\* the store with their session, currentSession still names the
\* session (neither stopRecording nor resetRecording clears it) and
\* isProcessing was left set.
FailedStopSession(t) == <<t, 0>>
FailedStopChunks(t) ==
    [k \in {<<t, 0>>, <<t, 1>>} |->
        [id |-> k, sessionId |-> FailedStopSession(t), createdAt |-> ToISOString(t),
         floats |-> Mp3(IF k[2] = 0 THEN <<1, 2>> ELSE <<3>>)]]
AfterFailedStop(t) ==
    /\ audioSessions = [k \in {FailedStopSession(t)} |->
           [id |-> k, createdAt |-> ToISOString(t), chunkCount |-> 2,
            totalSize |-> NaN, chunkIds |-> <<<<t, 0>>, <<t, 1>>>>,
            sampleRate |-> 1, numChannels |-> 1]]
    /\ audioChunks = FailedStopChunks(t)
    /\ tx = NoTx
    /\ now = t
    /\ calls = <<>>
    /\ pcmRecorder = 0
    /\ pcmArrays = <<>>
    /\ totalSamples = 0
    /\ isRecording = FALSE
    /\ isProcessing = TRUE
    /\ error = ""
    /\ audioBlob = NoBlob
    /\ audioUrl = NoBlob
    /\ currentSession = FailedStopSession(t)
    /\ recordingInterval = FALSE
    /\ recordingStartTime = t
    /\ recordingTime = 0
    /\ recorders = <<[port |-> FALSE, live |-> FALSE, listeners |-> 1]>>
    /\ fs = [f \in FileNames |-> NoFile]
    /\ mounted = TRUE

RecoverInit ==
    /\ AfterFailedStop(-MaxElapsed)
    /\ issued = 0
    /\ callNo = [k \in DOMAIN FailedStopChunks(-MaxElapsed) |-> 1]
    /\ captured = 0          \* counts the frames of the recordings that follow
    /\ tasks = <<>>
    /\ starts = 0
    /\ stops = 0
    /\ stoppedCalls = <<>>
    /\ faults = 0

\* The recordings of RestartNext, and the start whose microphone acquisition
\* throws, with the clean-up of its catch block.
RecoverNext ==
    \/ RestartNext
    \/ \E t \in DOMAIN tasks, id \in GenerateId : StartPcmRecorderReturn(t, TRUE, id)
    \/ \E t \in DOMAIN tasks, c \in DOMAIN calls : StartDeleteSessionReturn(t, c)

RecoverSpec == RecoverInit /\ [][RecoverNext]_vars

\* C36: a startRecording that fails deletes no session of an earlier
\* recording: when the failed start is over, the session a failed stop left
\* in the store is still there with both of its chunks.
C36_FailedStartKeepsEarlierSession ==
    (Quiet /\ error = "handleMicrophoneError") =>
        /\ FailedStopSession(-MaxElapsed) \in DOMAIN audioSessions
        /\ ChunkKeysOf(audioChunks, FailedStopSession(-MaxElapsed))
              = DOMAIN FailedStopChunks(-MaxElapsed)

\* ---------------------------------------- chunks committed after the read
\* The stopRecording runs that have read the chunks of their session
\* (getSessionChunks has answered) and have not returned or thrown yet.
StopsPastRead ==
    {t \in DOMAIN tasks :
        \/ At(t, {"stopRecording"}, {"concatLoad", "concatWrite", "concatList",
                                     "concatExec", "concatRead", "concatClean",
                                     "concatDelete", "deleteSession"})
        \/ /\ At(t, {"stopRecording"}, {"getSessionChunks"})
           /\ \E c \in DOMAIN calls : Settled(t, c)}

\* C37: no chunk of the session is committed to the store after stopRecording
\* has read the chunks of the session for concatenation: while such a run is
\* past its read, no step adds a chunk row of its session.
C37_NoCommitAfterRead ==
    [][\A t \in StopsPastRead :
          ChunkKeysOf(audioChunks', tasks[t].session)
              \subseteq ChunkKeysOf(audioChunks, tasks[t].session)]_vars

\* --------------------------------------------- stop during a periodic flush
\* One recording in which nothing fails: frames arrive until stopRecording is
\* called, which may be while a periodic flush is still encoding or storing.
\* Every id is generated in a later millisecond than the one before, so that
\* no store is rejected for its key and the ids sort in the order of their
\* generation.
OverlapNext ==
    \/ StartRecording
    \/ StopRecording
    \/ \E r \in DOMAIN recorders : stops = 0 /\ OnMessage(r)
    \/ \E t \in DOMAIN tasks : StartMicrophoneChecked(t, TRUE)
    \/ \E t \in DOMAIN tasks, id \in GenerateId : StartPcmRecorderReturn(t, FALSE, id)
    \/ \E t \in DOMAIN tasks, c \in DOMAIN calls : StartCreateSessionReturn(t, c)
    \/ \E t \in DOMAIN tasks : FfmpegLoad(t)
    \/ \E t \in DOMAIN tasks : PcmWrite(t)
    \/ \E t \in DOMAIN tasks, overwrites \in BOOLEAN : PcmExec(t, FALSE, overwrites)
    \/ \E t \in DOMAIN tasks : PcmRead(t)
    \/ \E t \in DOMAIN tasks : PcmDeleteInput(t)
    \/ \E t \in DOMAIN tasks : PcmDeleteOutput(t)
    \/ \E t \in DOMAIN tasks, id \in GenerateId : id[1] > now /\ BlobArrayBuffer(t, id)
    \/ \E t \in DOMAIN tasks, c \in DOMAIN calls : ListenerReturn(t, c)
    \/ \E t \in DOMAIN tasks, c \in DOMAIN calls : StopAppendMp3Return(t, c)
    \/ \E t \in DOMAIN tasks : AbortRecordingReturn(t, FALSE)
    \/ \E t \in DOMAIN tasks, c \in DOMAIN calls : StopGetSessionReturn(t, c)
    \/ \E t \in DOMAIN tasks, c \in DOMAIN calls : StopGetSessionChunksReturn(t, c)
    \/ \E t \in DOMAIN tasks : ConcatWriteInputs(t)
    \/ \E t \in DOMAIN tasks : ConcatWriteList(t)
    \/ \E t \in DOMAIN tasks, overwrites \in BOOLEAN : ConcatExec(t, FALSE, overwrites)
    \/ \E t \in DOMAIN tasks : ConcatRead(t)
    \/ \E t \in DOMAIN tasks : ConcatDeleteInputs(t)
    \/ \E t \in DOMAIN tasks : ConcatDeleteOutput(t)
    \/ \E t \in DOMAIN tasks, c \in DOMAIN calls : StopDeleteSessionReturn(t, c)
    \/ \E c \in DOMAIN calls : CreateSessionAdd(c)
    \/ \E c \in DOMAIN calls : StoreGet(c)
    \/ \E c \in DOMAIN calls : StoreTxAdd(c, FALSE)
    \/ \E c \in DOMAIN calls : StoreTxPut(c, FALSE)
    \/ \E c \in DOMAIN calls : StoreTxCommit(c)
    \/ \E c \in DOMAIN calls : GetSessionChunksQuery(c)
    \/ \E c \in DOMAIN calls : GetSessionGet(c)
    \/ \E c \in DOMAIN calls : DeleteGet(c)
    \/ \E c \in DOMAIN calls : DeleteTxChunks(c, FALSE)
    \/ \E c \in DOMAIN calls : DeleteTxSession(c, FALSE)
    \/ \E c \in DOMAIN calls : DeleteTxCommit(c)

OverlapSpec == CycleInit /\ [][OverlapNext]_vars

\* C38: while no encode or store fails, every frame delivered before
\* stopRecording is called is in exactly one stored chunk, in arrival order
\* inside and across the chunks: once stopRecording has been called and every
\* flush has stored its chunk, the chunks of the session, in the order in
\* which getSessionChunks returns them, hold the frames 1..captured.
C38_EveryFrameInOneChunk ==
    (/\ stops = 1 /\ FlushesInFlight = {}
     /\ currentSession \in DOMAIN audioSessions
     /\ \A t \in DOMAIN tasks : tasks[t].pc # "failed" /\ tasks[t].error = ""
     /\ \A c \in DOMAIN calls : calls[c].op # "deleteSession" /\ calls[c].pc # "err") =>
        ConcatData(GetSessionChunks(audioChunks, currentSession))
            = [i \in 1..captured |-> i]

\* ------------------------------------------------- the public reset
\* resetRecording, called by the application: the results, the error and the
\* accumulator are cleared and the reference to the recorder is dropped; the
\* recorder is not stopped, and isRecording, the timer and currentSession
\* are left as they are.
ResetRecording ==
    /\ mounted
    /\ audioBlob' = NoBlob /\ audioUrl' = NoBlob /\ error' = ""
    /\ pcmArrays' = <<>> /\ totalSamples' = 0 /\ pcmRecorder' = 0
    /\ UNCHANGED <<storeVars, now, calls, issued, callNo, isRecording, isProcessing,
                   currentSession, recordingInterval, envVars, tasks>>
    /\ UNCHANGED <<faults, timeVars>>

\* The recordings of RestartNext, with resetRecording called between the
\* steps of the user, also while a recording is active.
ResetNext ==
    \/ RestartNext
    \/ Quiet /\ ResetRecording

ResetSpec == CycleInit /\ [][ResetNext]_vars

\* C39: after any sequence of startRecording, stopRecording and
\* resetRecording no recorder is orphaned: every recorder that was started
\* and has not been stopped is the one the orchestrator references, so at
\* most one recorder is live, and no timer runs while no recorder is held.
C39_NoOrphanedRecorder ==
    /\ \A r \in DOMAIN recorders : recorders[r].live => pcmRecorder = r
    /\ (Quiet /\ recordingInterval) => pcmRecorder # 0

\* ------------------------------------------------ the end of finalization
\* The recordings of RestartNext, in which the finalization of a stop may
\* fail: ffmpeg.exec rejects in concatMp3, or the transaction of
\* deleteSession fails.
FinishNext ==
    \/ RestartNext
    \/ \E t \in DOMAIN tasks, overwrites \in BOOLEAN : ConcatExec(t, TRUE, overwrites)
    \/ \E c \in DOMAIN calls : DeleteTxSession(c, TRUE)

\* A step of a run that is in flight.  The event loop runs every
\* continuation whose promise has settled, and the store and the engine
\* answer every request, so such a step is taken when one is possible; the
\* user need not start or stop anything.
FinishStep == ~Quiet /\ FinishNext

FairFinishSpec == CycleInit /\ [][FinishNext]_vars /\ WF_vars(FinishStep)

\* C40: every stopRecording run that sets isProcessing to true sets it back
\* to false eventually, also when the finalization fails: whenever
\* isProcessing is true, it is false at some later time.
C40_ProcessingEnds == isProcessing ~> ~isProcessing
====
